---- MODULE Spec2Model ----
(***************************************************************************)
(* A model of the replacement rule engine of Conway-Markdown (src/cmd.py): *)
(* the placeholder service, the two-phase life cycle of a replacement      *)
(* rule, and the rule-set compiler and executor (ReplacementMaster).       *)
(*                                                                         *)
(* Strings are sequences of Unicode code points (natural numbers).         *)
(***************************************************************************)
EXTENDS Integers, Sequences, FiniteSets, TLC

VARIABLES
    \* ---- placeholder service (PlaceholderMaster is a static class; the
    \* ---- variables hold the string a caller threads through its methods)
    ph_input,       \* the string the caller started with
    ph_string,      \* the caller's current string
    ph_calls,       \* the PlaceholderMaster methods called so far, in order
    ph_raised,      \* the exception that escaped the last call, or "none"
    \* ---- one replacement rule object and its caller
    rule,           \* the fields of an OrdinaryDictionaryReplacement
    call,           \* the last method called on it and how the call ended
    \* ---- the rule-set compiler and executor (cmd_to_html)
    master,         \* the fields of the ReplacementMaster
    frames,         \* rules_file_name of each call of legislate on the stack
    locals,         \* the local variables of the innermost call of legislate
    pc,             \* "legislate", "legislated", "executed", or "exited"
    error,          \* the error message printed before sys.exit, or None
    output,         \* what execute was given, returned, raised and ran
    \* ---- the reference table of links and images (ReferenceMaster)
    reference_from_label,   \* the dictionary from normalised label to reference
    history,        \* the calls made on the module by a caller, in order
    \* ---- two conversions (cmd_to_html) that run side by side
    conversions     \* the ReplacementMaster and ReferenceMaster objects of both

ph_vars == <<ph_input, ph_string, ph_calls, ph_raised>>

rule_vars == <<rule, call>>

master_vars == <<master, frames, locals, pc, error, output>>

reference_vars == <<reference_from_label, history>>

vars == <<ph_input, ph_string, ph_calls, ph_raised, rule, call,
          master, frames, locals, pc, error, output,
          reference_from_label, history, conversions>>

\* no conversion has been started
NoConversions == <<>>

(***************************************************************************)
(* Bounds of the model                                                     *)
(***************************************************************************)
MaxLen == 3             \* longest string handed to the placeholder service
MaxCalls == 2           \* longest chain of PlaceholderMaster calls
MaxSubstitutions == 2   \* most substitutions added to one dictionary rule

(***************************************************************************)
(* Generic helpers on sequences                                            *)
(***************************************************************************)
Range(f) == {f[i] : i \in DOMAIN f}

RECURSIVE Flatten(_)
Flatten(ss) == IF ss = <<>> THEN <<>> ELSE Head(ss) \o Flatten(Tail(ss))

SeqsUpTo(S, n) == UNION {[1..k -> S] : k \in 0..n}

\* Sequencing of two steps: an exception of the first step escapes.
Bind(first, Rest(_)) == IF first.raised # "none" THEN first ELSE Rest(first)

WithStringBefore(string, result) ==
    IF result.raised # "none" THEN result ELSE [result EXCEPT !.string = string \o @]

(***************************************************************************)
(* PlaceholderMaster                                                       *)
(***************************************************************************)
RUN_CODE_POINT_MIN == 57344          \* U+E000
RUN_CODE_POINT_MAX == 57600          \* U+E100, upper end of the run class
MARKER == 63743                      \* U+F8FF
REPLACEMENT_CODE_POINT == 65533      \* U+FFFD

\* str.encode(): the UTF-8 bytes of one Unicode scalar value
EncodeCodePoint(cp) ==
    IF cp < 128 THEN <<cp>>
    ELSE IF cp < 2048 THEN <<192 + (cp \div 64), 128 + (cp % 64)>>
    ELSE IF cp < 65536 THEN
        <<224 + (cp \div 4096), 128 + ((cp \div 64) % 64), 128 + (cp % 64)>>
    ELSE
        <<240 + (cp \div 262144), 128 + ((cp \div 4096) % 64),
          128 + ((cp \div 64) % 64), 128 + (cp % 64)>>

Encode(string) == Flatten([i \in 1..Len(string) |-> EncodeCodePoint(string[i])])

IsContinuation(b, lo, hi) == b >= lo /\ b <= hi

\* The length of the well-formed UTF-8 sequence that starts bs, 0 if none
\* (bytes.decode() is strict: overlong forms, surrogates, values above
\* U+10FFFF, stray continuation bytes and truncated sequences are errors).
WellFormedLength(bs) ==
    LET b1 == bs[1]
        n == Len(bs)
        lo2 == IF b1 = 224 THEN 160 ELSE IF b1 = 240 THEN 144 ELSE 128
        hi2 == IF b1 = 237 THEN 159 ELSE IF b1 = 244 THEN 143 ELSE 191
    IN  IF b1 < 128 THEN 1
        ELSE IF b1 >= 194 /\ b1 <= 223
            THEN IF n >= 2 /\ IsContinuation(bs[2], 128, 191) THEN 2 ELSE 0
        ELSE IF b1 >= 224 /\ b1 <= 239
            THEN IF n >= 3 /\ IsContinuation(bs[2], lo2, hi2)
                           /\ IsContinuation(bs[3], 128, 191) THEN 3 ELSE 0
        ELSE IF b1 >= 240 /\ b1 <= 244
            THEN IF n >= 4 /\ IsContinuation(bs[2], lo2, hi2)
                           /\ IsContinuation(bs[3], 128, 191)
                           /\ IsContinuation(bs[4], 128, 191) THEN 4 ELSE 0
        ELSE 0

DecodeCodePoint(bs, k) ==
    IF k = 1 THEN bs[1]
    ELSE IF k = 2 THEN (bs[1] - 192) * 64 + (bs[2] - 128)
    ELSE IF k = 3 THEN (bs[1] - 224) * 4096 + (bs[2] - 128) * 64 + (bs[3] - 128)
    ELSE (bs[1] - 240) * 262144 + (bs[2] - 128) * 4096
            + (bs[3] - 128) * 64 + (bs[4] - 128)

\* bytes.decode(): [ok |-> TRUE, string |-> ...] or UnicodeDecodeError
RECURSIVE Decode(_)
Decode(bs) ==
    IF bs = <<>> THEN [ok |-> TRUE, string |-> <<>>]
    ELSE LET k == WellFormedLength(bs)
         IN  IF k = 0 THEN [ok |-> FALSE, string |-> <<>>]
             ELSE LET rest == Decode(SubSeq(bs, k + 1, Len(bs)))
                  IN  IF rest.ok
                      THEN [ok |-> TRUE,
                            string |-> <<DecodeCodePoint(bs, k)>> \o rest.string]
                      ELSE rest

\* a run class that stops at U+E07F: only the bytes of ASCII text are run characters
IsRunCharacterAsciiOnly(cp) == cp >= RUN_CODE_POINT_MIN /\ cp < RUN_CODE_POINT_MIN + 128

\* the character class [U+E000 - U+E100] of _PLACEHOLDER_PATTERN_COMPILED
IsRunCharacter(cp) == cp >= RUN_CODE_POINT_MIN /\ cp <= RUN_CODE_POINT_MAX

\* the index just past the longest run of run characters that starts at i
RECURSIVE RunEnd(_, _)
RunEnd(string, i) ==
    IF i <= Len(string) /\ IsRunCharacter(string[i])
    THEN RunEnd(string, i + 1) ELSE i

\* A result of a call: the exception that escaped it ("none" if it returned)
\* and the string it returned.
Returned(string) == [raised |-> "none", string |-> string]
Raised(exception) == [raised |-> exception, string |-> <<>>]

\* _unprotect_substitute_function: bytes(...) raises ValueError for a value
\* outside range(0, 256); an undecodable byte run becomes U+FFFD.
UnprotectSubstituteFunction(run_characters) ==
    LET string_bytes ==
            [i \in 1..Len(run_characters) |-> run_characters[i] - RUN_CODE_POINT_MIN]
        decoded == Decode(string_bytes)
    IN  IF \E i \in 1..Len(string_bytes) : string_bytes[i] > 255
        THEN Raised("ValueError")
        ELSE IF decoded.ok THEN Returned(decoded.string)
        ELSE Returned(<<REPLACEMENT_CODE_POINT>>)

\* re.sub(_PLACEHOLDER_PATTERN_COMPILED, _unprotect_substitute_function, string)
\* from index i on: leftmost non-overlapping matches of marker, run, marker.
RECURSIVE UnprotectFrom(_, _)
UnprotectFrom(string, i) ==
    IF i > Len(string) THEN Returned(<<>>)
    ELSE IF /\ string[i] = MARKER
            /\ RunEnd(string, i + 1) <= Len(string)
            /\ string[RunEnd(string, i + 1)] = MARKER
        THEN Bind(UnprotectSubstituteFunction(
                      SubSeq(string, i + 1, RunEnd(string, i + 1) - 1)),
                  LAMBDA substitute :
                      WithStringBefore(substitute.string,
                          UnprotectFrom(string, RunEnd(string, i + 1) + 1)))
    ELSE WithStringBefore(<<string[i]>>, UnprotectFrom(string, i + 1))

unprotect(string) == UnprotectFrom(string, 1)

\* the run characters of a string: chr(byte + _RUN_CODE_POINT_MIN) of each byte
RunCharacters(string_bytes) ==
    [i \in 1..Len(string_bytes) |-> string_bytes[i] + RUN_CODE_POINT_MIN]

protect(string) ==
    Bind(unprotect(string),
         LAMBDA unprotected :
             Returned(<<MARKER>> \o RunCharacters(Encode(unprotected.string))
                      \o <<MARKER>>))

\* occurrences of the marker left as they are
replace_marker_occurrences_skipped(string) == Returned(string)

replace_marker_occurrences(string) ==
    LET placeholder == protect(<<MARKER>>)
    IN  IF placeholder.raised # "none" THEN placeholder
        ELSE Returned(Flatten([i \in 1..Len(string) |->
                IF string[i] = MARKER THEN placeholder.string ELSE <<string[i]>>]))

(***************************************************************************)
(* ReferenceMaster                                                         *)
(***************************************************************************)
\* Reference(attribute_specifications, uri, title)
Reference(attribute_specifications, uri, title) ==
    [attribute_specifications |-> attribute_specifications,
     uri |-> uri, title |-> title]

\* self._reference_from_label = {}
NoReferences == [label \in {} |-> Reference(<<>>, <<>>, <<>>)]

\* str.lower() on one code point: the capital letters of ASCII and of
\* Latin-1 (U+00D7 is the multiplication sign) have their small letter 32
\* code points above; no other code point of the model has another case.
LowerCodePoint(cp) ==
    IF \/ cp \in 65..90
       \/ cp \in 192..222 /\ cp # 215
    THEN cp + 32 ELSE cp

\* normalise_label that returns the label as written
normalise_label_as_written(label) == label

normalise_label(label) == [i \in 1..Len(label) |-> LowerCodePoint(label[i])]

store_definition(self, label, attribute_specifications, uri, title) ==
    [x \in DOMAIN self \cup {normalise_label(label)} |->
        IF x = normalise_label(label)
        THEN Reference(attribute_specifications, uri, title)
        ELSE self[x]]

\* the outcome of load_definition: the exception raised, or the tuple returned
load_definition(self, label) ==
    IF normalise_label(label) \notin DOMAIN self
    THEN [raised |-> "UnrecognisedLabelException", returned |-> <<>>]
    ELSE [raised |-> "none",
          returned |-> <<self[normalise_label(label)].attribute_specifications,
                         self[normalise_label(label)].uri,
                         self[normalise_label(label)].title>>]

(***************************************************************************)
(* Replacement: the two-phase life cycle of a rule object                  *)
(***************************************************************************)
None == "None"                      \* Python's None, where a name may stand

\* A delimiter that is None is the empty string here (a delimiter that is set
\* is never empty); a bool that may be None is "True", "False" or None.

\* enabled_flag_names: None (not given), or a set of flag names
NoFlagNames == [given |-> FALSE, names |-> {}]
FlagNames(names) == [given |-> TRUE, names |-> names]

\* Replacement.__init__ and the __init__ of the subclasses modelled: a rule of
\* every class is a record of the same shape; a field its class does not have
\* keeps the value given here.
NewReplacement(class_name, id_) ==
    [class_name |-> class_name,
     id_ |-> id_,
     is_committed |-> FALSE,
     queue_position_type |-> None,
     queue_reference_replacement |-> None,
     positive_flag_name |-> None,
     negative_flag_name |-> None,
     replacements |-> <<>>,
     substitute_from_pattern |-> <<>>,
     apply_substitutions_simultaneously |-> TRUE,
     syntax_type_is_block |-> None,
     opening_delimiter |-> <<>>,
     closing_delimiter |-> <<>>,
     content_replacements |-> <<>>,
     concluding_replacements |-> <<>>]

\* The outcome of a setter: the exception it raised and the object after it.
Mutated(self) == [raised |-> "none", self |-> self]
Refused(self) == [raised |-> "CommittedMutateException", self |-> self]

set_queue_position_type(self, value) ==
    IF self.is_committed THEN Refused(self)
    ELSE Mutated([self EXCEPT !.queue_position_type = value])

set_queue_reference_replacement(self, value) ==
    IF self.is_committed THEN Refused(self)
    ELSE Mutated([self EXCEPT !.queue_reference_replacement = value])

set_positive_flag_name(self, value) ==
    IF self.is_committed THEN Refused(self)
    ELSE Mutated([self EXCEPT !.positive_flag_name = value])

set_negative_flag_name(self, value) ==
    IF self.is_committed THEN Refused(self)
    ELSE Mutated([self EXCEPT !.negative_flag_name = value])

set_replacements(self, value) ==
    IF self.is_committed THEN Refused(self)
    ELSE Mutated([self EXCEPT !.replacements = value])

set_concluding_replacements(self, value) ==
    IF self.is_committed THEN Refused(self)
    ELSE Mutated([self EXCEPT !.concluding_replacements = value])

set_apply_substitutions_simultaneously(self, value) ==
    IF self.is_committed THEN Refused(self)
    ELSE Mutated([self EXCEPT !.apply_substitutions_simultaneously = value])

set_syntax_type_is_block(self, value) ==
    IF self.is_committed THEN Refused(self)
    ELSE Mutated([self EXCEPT !.syntax_type_is_block = value])

set_opening_delimiter(self, value) ==
    IF self.is_committed THEN Refused(self)
    ELSE Mutated([self EXCEPT !.opening_delimiter = value])

set_closing_delimiter(self, value) ==
    IF self.is_committed THEN Refused(self)
    ELSE Mutated([self EXCEPT !.closing_delimiter = value])

set_content_replacements(self, value) ==
    IF self.is_committed THEN Refused(self)
    ELSE Mutated([self EXCEPT !.content_replacements = value])

\* dict item assignment: a new key goes last, a known key keeps its place
DictSet(dict, key, value) ==
    IF \E i \in 1..Len(dict) : dict[i][1] = key
    THEN [i \in 1..Len(dict) |-> IF dict[i][1] = key THEN <<key, value>> ELSE dict[i]]
    ELSE Append(dict, <<key, value>>)

\* add_substitution without the check of _is_committed
add_substitution_unguarded(self, pattern, substitute) ==
    Mutated([self EXCEPT !.substitute_from_pattern = DictSet(@, pattern, substitute)])

add_substitution(self, pattern, substitute) ==
    IF self.is_committed THEN Refused(self)
    ELSE Mutated([self EXCEPT
            !.substitute_from_pattern = DictSet(@, pattern, substitute)])

\* _validate_mandatory_attributes: the attribute MissingAttributeException
\* names, or None
MissingAttribute(self) ==
    IF self.class_name # "FixedDelimitersReplacement" THEN None
    ELSE IF self.syntax_type_is_block = None THEN "syntax_type"
    ELSE IF self.opening_delimiter = <<>> THEN "opening_delimiter"
    ELSE IF self.closing_delimiter = <<>> THEN "closing_delimiter"
    ELSE None

\* commit without the assignment of _is_committed
commit_replacement_without_flag(self) == self

\* Replacement.commit once the mandatory attributes are validated: the
\* variables _set_apply_method_variables compiles are functions of the
\* fields above.
commit_replacement(self) == [self EXCEPT !.is_committed = TRUE]

(***************************************************************************)
(* Replacement.apply and the _apply of the classes modelled                *)
(***************************************************************************)
RecursionLimit == 6     \* stands for sys.getrecursionlimit()

\* The outcome of apply: the exception that escaped ("none" if it returned),
\* the string returned, and the ids of the rules whose _apply ran, in the
\* order in which verbose mode prints them.
Applied(string, log) == [raised |-> "none", string |-> string, log |-> log]
Failed(exception, log) == [raised |-> exception, string |-> <<>>, log |-> log]

StartsWithAt(string, i, pattern) ==
    /\ i + Len(pattern) - 1 <= Len(string)
    /\ SubSeq(string, i, i + Len(pattern) - 1) = pattern

\* str.replace(pattern, substitute) from index i on, for a non-empty pattern
RECURSIVE StrReplaceFrom(_, _, _, _)
StrReplaceFrom(string, i, pattern, substitute) ==
    IF i > Len(string) THEN <<>>
    ELSE IF StartsWithAt(string, i, pattern)
        THEN substitute \o StrReplaceFrom(string, i + Len(pattern), pattern, substitute)
        ELSE <<string[i]>> \o StrReplaceFrom(string, i + 1, pattern, substitute)

\* the flags asked without `if enabled_flag_names is not None`: no set given
\* counts as a set with no flag enabled
IsGatedWithoutSet(self, enabled_flag_names) ==
    \/ /\ self.positive_flag_name # None
       /\ self.positive_flag_name \notin enabled_flag_names.names
    \/ /\ self.negative_flag_name # None
       /\ self.negative_flag_name \in enabled_flag_names.names

\* a positive flag that is set and not enabled, or a negative flag that is
\* set and enabled (only asked when enabled_flag_names is given)
IsGatedIgnoringNegativeFlag(self, enabled_flag_names) ==
    /\ enabled_flag_names.given
    /\ self.positive_flag_name # None
    /\ self.positive_flag_name \notin enabled_flag_names.names

IsGated(self, enabled_flag_names) ==
    /\ enabled_flag_names.given
    /\ \/ /\ self.positive_flag_name # None
          /\ self.positive_flag_name \notin enabled_flag_names.names
       \/ /\ self.negative_flag_name # None
          /\ self.negative_flag_name \in enabled_flag_names.names

WithLogBefore(log, result) == [result EXCEPT !.log = log \o @]

WithLogAfter(result, id) ==
    IF result.raised # "none" THEN result ELSE [result EXCEPT !.log = Append(@, id)]

\* the first pattern, in dictionary order, that matches string at index i
\* (0 if none): the alternation of build_simultaneous_regex_pattern
FirstHit(dict, string, i) ==
    LET hits == {k \in 1..Len(dict) : StartsWithAt(string, i, dict[k][1])}
    IN  IF hits = {} THEN 0 ELSE CHOOSE k \in hits : \A other \in hits : k <= other

\* the first loop of OrdinaryDictionaryReplacement.sequential_apply
RECURSIVE SequentialReplace(_, _)
SequentialReplace(dict, string) ==
    IF dict = <<>> THEN string
    ELSE SequentialReplace(Tail(dict),
                           StrReplaceFrom(string, 1, Head(dict)[1], Head(dict)[2]))

FromPlaceholderMaster(result) ==
    IF result.raised # "none" THEN Failed(result.raised, <<>>)
    ELSE Applied(result.string, <<>>)

RECURSIVE apply(_, _, _, _, _)
RECURSIVE ApplyEach(_, _, _, _, _)
RECURSIVE SimultaneousApplyFrom(_, _, _, _, _)
RECURSIVE FixedDelimitersApplyFrom(_, _, _, _, _)

\* for replacement in replacements: string = replacement.apply(string, flags)
ApplyEach(registry, replacements, string, enabled_flag_names, depth) ==
    IF replacements = <<>> THEN Applied(string, <<>>)
    ELSE Bind(apply(registry, Head(replacements), string, enabled_flag_names, depth),
              LAMBDA first :
                  WithLogBefore(first.log,
                      ApplyEach(registry, Tail(replacements), first.string,
                                enabled_flag_names, depth)))

\* OrdinaryDictionaryReplacement.simultaneous_apply from index i on: at each
\* index the first pattern that matches there is replaced by its substitute,
\* passed through the concluding replacements.
SimultaneousApplyFrom(registry, self, string, i, depth) ==
    IF i > Len(string) THEN Applied(<<>>, <<>>)
    ELSE IF FirstHit(self.substitute_from_pattern, string, i) = 0
        THEN WithStringBefore(<<string[i]>>,
                 SimultaneousApplyFrom(registry, self, string, i + 1, depth))
        ELSE Bind(ApplyEach(registry, self.concluding_replacements,
                      self.substitute_from_pattern[
                          FirstHit(self.substitute_from_pattern, string, i)][2],
                      NoFlagNames, depth),
                  LAMBDA substitute :
                      WithLogBefore(substitute.log,
                          WithStringBefore(substitute.string,
                              SimultaneousApplyFrom(registry, self, string,
                                  i + Len(self.substitute_from_pattern[
                                      FirstHit(self.substitute_from_pattern, string, i)][1]),
                                  depth))))

\* the index of the first occurrence of pattern in string from index i on
\* (0 if none)
FindFrom(string, i, pattern) ==
    LET hits == {j \in i..Len(string) : StartsWithAt(string, j, pattern)}
    IN  IF hits = {} THEN 0 ELSE CHOOSE j \in hits : \A other \in hits : j <= other

\* the index of the closing delimiter of the match of the regex of an inline
\* FixedDelimitersReplacement (no flags, no attribute specifications, no
\* prohibited content) that starts at index i, or 0: the opening delimiter,
\* the shortest content, the closing delimiter
ClosingIndex(self, string, i) ==
    IF StartsWithAt(string, i, self.opening_delimiter)
    THEN FindFrom(string, i + Len(self.opening_delimiter), self.closing_delimiter)
    ELSE 0

\* the substitute function of FixedDelimitersReplacement, for a rule with no
\* flags and no tag name: the content through the content replacements,
\* then through the concluding replacements, both with no flag enabled
FixedDelimitersSubstitute(registry, self, content, depth) ==
    Bind(ApplyEach(registry, self.content_replacements, content, FlagNames({}), depth),
         LAMBDA replaced :
             WithLogBefore(replaced.log,
                 ApplyEach(registry, self.concluding_replacements, replaced.string,
                           FlagNames({}), depth)))

\* re.sub of FixedDelimitersReplacement._apply from index i on
FixedDelimitersApplyFrom(registry, self, string, i, depth) ==
    IF i > Len(string) THEN Applied(<<>>, <<>>)
    ELSE IF ClosingIndex(self, string, i) = 0
        THEN WithStringBefore(<<string[i]>>,
                 FixedDelimitersApplyFrom(registry, self, string, i + 1, depth))
        ELSE Bind(FixedDelimitersSubstitute(registry, self,
                      SubSeq(string, i + Len(self.opening_delimiter),
                             ClosingIndex(self, string, i) - 1),
                      depth),
                  LAMBDA substitute :
                      WithLogBefore(substitute.log,
                          WithStringBefore(substitute.string,
                              FixedDelimitersApplyFrom(registry, self, string,
                                  ClosingIndex(self, string, i)
                                      + Len(self.closing_delimiter),
                                  depth))))

\* _apply of a dictionary rule that takes the loop of sequential_apply in
\* both modes
ApplyOfClassAlwaysSequential(registry, self, string, depth) ==
    ApplyEach(registry, self.concluding_replacements,
              SequentialReplace(self.substitute_from_pattern, string),
              NoFlagNames, depth)

\* self._apply(string), by class
ApplyOfClass(registry, self, string, depth) ==
    CASE self.class_name = "ReplacementSequence" ->
            ApplyEach(registry, self.replacements, string, NoFlagNames, depth)
      [] self.class_name = "PlaceholderMarkerReplacement" ->
            FromPlaceholderMaster(replace_marker_occurrences(string))
      [] self.class_name = "PlaceholderProtectionReplacement" ->
            FromPlaceholderMaster(protect(string))
      [] self.class_name = "PlaceholderUnprotectionReplacement" ->
            FromPlaceholderMaster(unprotect(string))
      [] self.class_name = "FixedDelimitersReplacement" ->
            FixedDelimitersApplyFrom(registry, self, string, 1, depth)
      [] self.class_name = "OrdinaryDictionaryReplacement" ->
            IF self.apply_substitutions_simultaneously
            THEN IF Len(self.substitute_from_pattern) > 0
                 THEN SimultaneousApplyFrom(registry, self, string, 1, depth)
                 ELSE Applied(string, <<>>)
            ELSE ApplyEach(registry, self.concluding_replacements,
                           SequentialReplace(self.substitute_from_pattern, string),
                           NoFlagNames, depth)

\* Replacement.apply(string, enabled_flag_names) of the rule registry[id];
\* depth counts the applications on the call stack.
apply(registry, id, string, enabled_flag_names, depth) ==
    IF depth > RecursionLimit THEN Failed("RecursionError", <<>>)
    ELSE IF ~registry[id].is_committed THEN Failed("UncommittedApplyException", <<>>)
    ELSE IF IsGated(registry[id], enabled_flag_names) THEN Applied(string, <<>>)
    ELSE WithLogAfter(ApplyOfClass(registry, registry[id], string, depth + 1), id)

(***************************************************************************)
(* build_attributes_sequence                                               *)
(***************************************************************************)
\* [\s] under re.ASCII: tab, line feed, vertical tab, form feed, carriage
\* return, space
Whitespace == {9, 10, 11, 12, 13, 32}

Digits == 48..57

Letters == (65..90) \cup (97..122)

\* None where a string is expected (no string holds a negative code point)
NoString == <<-1>>

\* the first index from i on that is past the end of the string or holds a
\* code point of stops: the end of a greedy run of [^stops]
RunEndExcluding(string, i, stops) ==
    LET ends == {j \in i..Len(string) + 1 : j = Len(string) + 1 \/ string[j] \in stops}
    IN  IF i > Len(string) THEN i ELSE CHOOSE j \in ends : \A other \in ends : j <= other

\* the end of a greedy run of [allowed]
RunEndWithin(string, i, allowed) ==
    LET ends == {j \in i..Len(string) + 1 : j = Len(string) + 1 \/ string[j] \notin allowed}
    IN  IF i > Len(string) THEN i ELSE CHOOSE j \in ends : \A other \in ends : j <= other

\* the first index from i on that holds the code point, or 0
IndexFrom(string, i, cp) ==
    IF RunEndExcluding(string, i, {cp}) > Len(string) THEN 0
    ELSE RunEndExcluding(string, i, {cp})

\* ATTRIBUTE_NAME_FROM_ABBREVIATION
AttributeNameFromAbbreviation(name) ==
    CASE name = <<35>> -> <<105, 100>>                                  \* # id
      [] name = <<46>> -> <<99, 108, 97, 115, 115>>                     \* . class
      [] name = <<108>> -> <<108, 97, 110, 103>>                        \* l lang
      [] name = <<114>> -> <<114, 111, 119, 115, 112, 97, 110>>         \* r rowspan
      [] name = <<99>> -> <<99, 111, 108, 115, 112, 97, 110>>           \* c colspan
      [] name = <<119>> -> <<119, 105, 100, 116, 104>>                  \* w width
      [] name = <<104>> -> <<104, 101, 105, 103, 104, 116>>             \* h height
      [] name = <<115>> -> <<115, 116, 121, 108, 101>>                  \* s style
      [] OTHER -> name

\* What extract_attribute_name_and_value returns for a match: (name, value),
\* (name, None) for a boolean attribute, (name,) for an attribute to be
\* omitted; next is the index after the match.
NameAndValue(name, value, next) ==
    [kind |-> "value", name |-> name, value |-> value, next |-> next]

NameOnly(name, next) ==
    [kind |-> "omit", name |-> name, value |-> NoString, next |-> next]

\* The match of the pattern of compute_attribute_specification_matches at a
\* code point i that is not whitespace, and what
\* extract_attribute_name_and_value extracts from it. The alternatives are
\* tried in the order of the pattern; the last, a boolean name, matches any
\* run of non-whitespace.
AttributeSpecificationAt(string, i) ==
    LET n == Len(string)
        name_end == RunEndExcluding(string, i, Whitespace \cup {61})
        value_start == name_end + 1
        quote_end ==
            IF value_start <= n /\ string[value_start] \in {34, 39}
            THEN IndexFrom(string, value_start + 1, string[value_start])
            ELSE 0
        word_end == RunEndExcluding(string, i, Whitespace)
        unquoted_end == RunEndExcluding(string, i + 1, Whitespace \cup {34})
        digits_end == RunEndWithin(string, i + 1, Digits)
    IN  IF name_end > i /\ name_end <= n /\ string[name_end] = 61
        THEN IF quote_end > 0
             THEN NameAndValue(AttributeNameFromAbbreviation(SubSeq(string, i, name_end - 1)),
                               SubSeq(string, value_start + 1, quote_end - 1),
                               quote_end + 1)
             ELSE NameAndValue(AttributeNameFromAbbreviation(SubSeq(string, i, name_end - 1)),
                               SubSeq(string, value_start,
                                      RunEndExcluding(string, value_start, Whitespace) - 1),
                               RunEndExcluding(string, value_start, Whitespace))
        ELSE IF string[i] = 35 /\ unquoted_end > i + 1
            THEN NameAndValue(<<105, 100>>, SubSeq(string, i + 1, unquoted_end - 1),
                              unquoted_end)
        ELSE IF string[i] = 46 /\ unquoted_end > i + 1
            THEN NameAndValue(<<99, 108, 97, 115, 115>>,
                              SubSeq(string, i + 1, unquoted_end - 1), unquoted_end)
        ELSE IF string[i] \in {114, 99, 119, 104} /\ digits_end > i + 1
            THEN NameAndValue(AttributeNameFromAbbreviation(<<string[i]>>),
                              SubSeq(string, i + 1, digits_end - 1), digits_end)
        ELSE IF string[i] = 45 /\ word_end > i + 1
            THEN NameOnly(SubSeq(string, i + 1, word_end - 1), word_end)
        ELSE NameAndValue(SubSeq(string, i, word_end - 1), NoString, word_end)

\* the matches of compute_attribute_specification_matches from index i on,
\* in order, each as extract_attribute_name_and_value reads it
RECURSIVE AttributeSpecificationsFrom(_, _)
AttributeSpecificationsFrom(string, i) ==
    IF RunEndWithin(string, i, Whitespace) > Len(string) THEN <<>>
    ELSE <<AttributeSpecificationAt(string, RunEndWithin(string, i, Whitespace))>>
         \o AttributeSpecificationsFrom(string,
                AttributeSpecificationAt(string, RunEndWithin(string, i, Whitespace)).next)

\* dict look-up in a dictionary kept as the sequence of its items
DictHas(dict, key) == \E i \in 1..Len(dict) : dict[i][1] = key

DictGet(dict, key) == dict[CHOOSE i \in 1..Len(dict) : dict[i][1] = key][2]

\* dict.pop(key, None)
DictPop(dict, key) == SelectSeq(dict, LAMBDA item : item[1] # key)

\* f' {value}': the value formatted, None as the text None
Formatted(value) == IF value = NoString THEN <<78, 111, 110, 101>> ELSE value

\* the index of the [;] that ends the character reference the [&] at index i
\* starts: up to 31 letters, or # and up to 7 digits, or #x and up to 6
\* hexadecimal digits; 0 if it starts none
CharacterReferenceEnd(value, i) ==
    LET letters_end == RunEndWithin(value, i + 1, Letters)
        digits_end == RunEndWithin(value, i + 2, Digits)
        hex_end == RunEndWithin(value, i + 3, Digits \cup (65..70) \cup (97..102))
        Ends(j) == j <= Len(value) /\ value[j] = 59
    IN  IF letters_end - (i + 1) \in 1..31 /\ Ends(letters_end) THEN letters_end
        ELSE IF i + 1 > Len(value) \/ value[i + 1] # 35 THEN 0
        ELSE IF digits_end - (i + 2) \in 1..7 /\ Ends(digits_end) THEN digits_end
        ELSE IF /\ i + 2 <= Len(value) /\ value[i + 2] \in {88, 120}
                /\ hex_end - (i + 3) \in 1..6 /\ Ends(hex_end)
            THEN hex_end
        ELSE 0

\* escape_attribute_value_html: & that starts no character reference
\* becomes &amp;, then < &lt;, > &gt;, " &quot;
escape_attribute_value_html(value) ==
    Flatten([i \in 1..Len(value) |->
        IF value[i] = 38 /\ CharacterReferenceEnd(value, i) = 0
            THEN <<38, 97, 109, 112, 59>>
        ELSE IF value[i] = 60 THEN <<38, 108, 116, 59>>
        ELSE IF value[i] = 62 THEN <<38, 103, 116, 59>>
        ELSE IF value[i] = 34 THEN <<38, 113, 117, 111, 116, 59>>
        ELSE <<value[i]>>])

ClassName == <<99, 108, 97, 115, 115>>

\* The first loop of build_attributes_sequence: attribute_value_from_name
\* after the specifications, or the exception that escaped. None += str
\* raises TypeError.
RECURSIVE AttributeValueFromName(_, _)
AttributeValueFromName(specifications, dict) ==
    IF specifications = <<>> THEN [raised |-> "none", dict |-> dict]
    ELSE LET name == Head(specifications).name
             value == Head(specifications).value
         IN  IF Head(specifications).kind = "omit"
             THEN AttributeValueFromName(Tail(specifications), DictPop(dict, name))
             ELSE IF name # ClassName
                 THEN AttributeValueFromName(Tail(specifications),
                                             DictSet(dict, name, value))
             ELSE IF ~DictHas(dict, ClassName)
                 THEN AttributeValueFromName(Tail(specifications),
                                             DictSet(dict, ClassName, value))
             ELSE IF DictGet(dict, ClassName) = NoString
                 THEN [raised |-> "TypeError", dict |-> dict]
             ELSE AttributeValueFromName(Tail(specifications),
                      DictSet(dict, ClassName,
                              DictGet(dict, ClassName) \o <<32>> \o Formatted(value)))

\* The second loop: the items of the dictionary in insertion order, each
\* value unprotected and escaped.
RECURSIVE AttributeSequence(_)
AttributeSequence(dict) ==
    IF dict = <<>> THEN Returned(<<>>)
    ELSE IF Head(dict)[2] = NoString
        THEN WithStringBefore(<<32>> \o Head(dict)[1], AttributeSequence(Tail(dict)))
    ELSE Bind(unprotect(Head(dict)[2]),
              LAMBDA value :
                  WithStringBefore(<<32>> \o Head(dict)[1] \o <<61, 34>>
                                       \o escape_attribute_value_html(value.string)
                                       \o <<34>>,
                                   AttributeSequence(Tail(dict))))

\* the dictionary into the sequence, protected if use_protection
AttributeSequenceOf(folded, use_protection) ==
    IF folded.raised # "none" THEN Raised(folded.raised)
    ELSE IF ~use_protection THEN AttributeSequence(folded.dict)
    ELSE Bind(AttributeSequence(folded.dict),
              LAMBDA attribute_sequence : protect(attribute_sequence.string))

build_attributes_sequence(attribute_specifications, use_protection) ==
    AttributeSequenceOf(
        AttributeValueFromName(
            AttributeSpecificationsFrom(attribute_specifications, 1), <<>>),
        use_protection)

(***************************************************************************)
(* InlineAssortedDelimitersReplacement                                     *)
(***************************************************************************)
\* The rule modelled has delimiter_conversion  *=em **=strong _=i __=b  (both
\* characters are of the class `either`), no attribute specifications and no
\* prohibited content.
tag_name_from_delimiter_length_from_character ==
    [character \in {42, 95} |->
        IF character = 42
        THEN <<<<101, 109>>, <<115, 116, 114, 111, 110, 103>>>>   \* em, strong
        ELSE <<<<105>>, <<98>>>>]                                 \* i, b

\* The match of the pattern of build_regex_pattern that starts at index p,
\* if there is one: an optional pipe, the delimiter (the character, doubled
\* if the next code point repeats it), not followed by whitespace or </,
\* the shortest non-empty content free of the delimiter character and not
\* ending in whitespace or a pipe, and the same delimiter again.
InlineMatchAt(string, p) ==
    LET n == Len(string)
        q == IF string[p] = 124 THEN p + 1 ELSE p
        character == IF q <= n THEN string[q] ELSE 0
        length == IF q + 1 <= n /\ string[q + 1] = character THEN 2 ELSE 1
        r == q + length
        e == IndexFrom(string, r, character)
    IN  [found |->
            /\ character \in DOMAIN tag_name_from_delimiter_length_from_character
            /\ r <= n
            /\ string[r] \notin Whitespace
            /\ ~(string[r] = 60 /\ r + 1 <= n /\ string[r + 1] = 47)
            /\ e > r
            /\ string[e - 1] \notin Whitespace \cup {124}
            /\ (length = 2 => e + 1 <= n /\ string[e + 1] = character),
         character |-> character,
         length |-> length,
         content |-> IF e > r THEN SubSeq(string, r, e - 1) ELSE <<>>,
         end |-> e + length - 1]

RECURSIVE InlineAssortedDelimitersApply(_)
RECURSIVE InlineAssortedDelimitersPassFrom(_, _)

\* substitute_function: <tag_name>content</tag_name>, the content put
\* through apply of the rule itself
InlineAssortedDelimitersSubstitute(match) ==
    <<60>> \o tag_name_from_delimiter_length_from_character[match.character][match.length]
    \o <<62>> \o InlineAssortedDelimitersApply(match.content)
    \o <<60, 47>>
    \o tag_name_from_delimiter_length_from_character[match.character][match.length]
    \o <<62>>

\* re.sub(pattern, substitute_function, string) from index i on: the
\* leftmost match is replaced and the scan goes on after it
InlineAssortedDelimitersPassFrom(string, i) ==
    IF i > Len(string) THEN <<>>
    ELSE IF InlineMatchAt(string, i).found
        THEN InlineAssortedDelimitersSubstitute(InlineMatchAt(string, i))
             \o InlineAssortedDelimitersPassFrom(string, InlineMatchAt(string, i).end + 1)
    ELSE <<string[i]>> \o InlineAssortedDelimitersPassFrom(string, i + 1)

\* _apply with one substitution pass instead of the loop
InlineAssortedDelimitersApplyOnce(string) ==
    InlineAssortedDelimitersPassFrom(string, 1)

\* _apply: while string_has_changed: ... (apply of a committed rule called
\* with no flag names is _apply)
InlineAssortedDelimitersApply(string) ==
    IF InlineAssortedDelimitersPassFrom(string, 1) = string THEN string
    ELSE InlineAssortedDelimitersApply(InlineAssortedDelimitersPassFrom(string, 1))

(***************************************************************************)
(* ReferencedImageReplacement and ReferencedLinkReplacement                *)
(***************************************************************************)
\* The rules modelled have no attribute specifications and no prohibited
\* content (the values of a rule just declared).

\* what [\s]* text [\s]* captures as text, the text being matched lazily:
\* the code points between the leading and the trailing whitespace
Captured(text) ==
    LET first == RunEndWithin(text, 1, Whitespace)
        lasts == {i \in 1..Len(text) : text[i] \notin Whitespace}
    IN  IF first > Len(text) THEN <<>>
        ELSE SubSeq(text, first, CHOOSE i \in lasts : \A j \in lasts : j <= i)

none_to_empty_string(string) == IF string = NoString THEN <<>> ELSE string

\* The match of the pattern of build_regex_pattern that starts at index p:
\* for an image an exclamation mark, then the bracketed alt or link text
\* (up to the first closing bracket), then the bracketed label if one
\* follows at once. label is None when the group did not take part.
ReferencedMatchAt(string, p, is_image) ==
    LET n == Len(string)
        q == IF is_image THEN p + 1 ELSE p
        j == IndexFrom(string, q + 1, 93)
        k == IF j > 0 /\ j + 1 <= n /\ string[j + 1] = 91
             THEN IndexFrom(string, j + 2, 93) ELSE 0
    IN  [found |-> /\ (is_image => string[p] = 33)
                   /\ q <= n /\ string[q] = 91
                   /\ j > 0,
         text |-> IF j > 0 THEN Captured(SubSeq(string, q + 1, j - 1)) ELSE <<>>,
         label |-> IF k > 0 THEN Captured(SubSeq(string, j + 2, k - 1)) ELSE NoString,
         group |-> IF j > 0 THEN SubSeq(string, p, IF k > 0 THEN k ELSE j) ELSE <<>>,
         end |-> IF k > 0 THEN k ELSE j]

\* ' '.join of four strings
JoinedBySpaces(a, b, c, d) == a \o <<32>> \o b \o <<32>> \o c \o <<32>> \o d

\* its label or, when the label is absent or empty, its alt or link text
LabelOf(match) ==
    IF match.label = NoString \/ match.label = <<>> THEN match.text ELSE match.label

\* f'title={title_protected}' if title is not None else ''
TitleSpecification(title) ==
    IF title = NoString THEN Returned(<<>>)
    ELSE Bind(protect(title),
              LAMBDA title_protected :
                  Returned(<<116, 105, 116, 108, 101, 61>> \o title_protected.string))

\* f'href={href_protected}' if href is not None else ''
HrefSpecification(href) ==
    IF href = NoString THEN Returned(<<>>)
    ELSE Bind(protect(href),
              LAMBDA href_protected :
                  Returned(<<104, 114, 101, 102, 61>> \o href_protected.string))

\* substitute_function of ReferencedImageReplacement once the alt text is
\* protected and the label looked up
ReferencedImageSubstituteLoaded(match, alt_protected, loaded) ==
    IF loaded.raised # "none" THEN Returned(match.group)
    ELSE Bind(protect(none_to_empty_string(loaded.returned[2])),
         LAMBDA src_protected :
         Bind(TitleSpecification(loaded.returned[3]),
         LAMBDA title :
         Bind(build_attributes_sequence(
                  JoinedBySpaces(<<97, 108, 116, 61>> \o alt_protected,
                                 <<115, 114, 99, 61>> \o src_protected.string,
                                 title.string,
                                 none_to_empty_string(loaded.returned[1])),
                  TRUE),
         LAMBDA attributes_sequence :
             Returned(<<60, 105, 109, 103>> \o attributes_sequence.string \o <<62>>))))

\* substitute_function of ReferencedImageReplacement: the alt text is
\* protected before the label is looked up
ReferencedImageSubstitute(self, match) ==
    Bind(protect(match.text),
         LAMBDA alt_protected :
             ReferencedImageSubstituteLoaded(match, alt_protected.string,
                                             load_definition(self, LabelOf(match))))

ReferencedLinkSubstituteLoaded(match, loaded) ==
    IF loaded.raised # "none" THEN Returned(match.group)
    ELSE Bind(HrefSpecification(loaded.returned[2]),
         LAMBDA href :
         Bind(TitleSpecification(loaded.returned[3]),
         LAMBDA title :
         Bind(build_attributes_sequence(
                  href.string \o <<32>> \o title.string \o <<32>>
                      \o none_to_empty_string(loaded.returned[1]),
                  TRUE),
         LAMBDA attributes_sequence :
             Returned(<<60, 97>> \o attributes_sequence.string \o <<62>>
                      \o match.text \o <<60, 47, 97, 62>>))))

\* substitute_function of ReferencedLinkReplacement
ReferencedLinkSubstitute(self, match) ==
    ReferencedLinkSubstituteLoaded(match, load_definition(self, LabelOf(match)))

RECURSIVE ReferencedApplyFrom(_, _, _, _)

\* the scan at index i, given the match found there or not
ReferencedApplyAt(self, string, i, is_image, match) ==
    IF ~match.found
    THEN WithStringBefore(<<string[i]>>, ReferencedApplyFrom(self, string, i + 1, is_image))
    ELSE Bind(IF is_image THEN ReferencedImageSubstitute(self, match)
              ELSE ReferencedLinkSubstitute(self, match),
              LAMBDA substitute :
                  WithStringBefore(substitute.string,
                      ReferencedApplyFrom(self, string, match.end + 1, is_image)))

\* _apply of both classes: re.sub(pattern, substitute_function, string)
\* from index i on; an exception of the substitute function ends it
ReferencedApplyFrom(self, string, i, is_image) ==
    IF i > Len(string) THEN Returned(<<>>)
    ELSE ReferencedApplyAt(self, string, i, is_image,
                           ReferencedMatchAt(string, i, is_image))

(***************************************************************************)
(* compute_longest_common_prefix and de_indent                             *)
(***************************************************************************)
\* [^\S\n] under re.ASCII
WhitespaceButNewline == Whitespace \ {10}

\* string.startswith(prefix)
StartsWith(string, prefix) ==
    Len(prefix) <= Len(string) /\ SubSeq(string, 1, Len(prefix)) = prefix

\* min(strings, key=len, default=''): the first of the shortest strings
ShortestString(strings) ==
    IF strings = <<>> THEN <<>>
    ELSE strings[CHOOSE i \in 1..Len(strings) :
                    /\ \A j \in 1..Len(strings) : Len(strings[i]) <= Len(strings[j])
                    /\ \A j \in 1..i - 1 : Len(strings[j]) > Len(strings[i])]

\* the while loop: the prefix loses its last code point until every string
\* starts with it
RECURSIVE ShortenedPrefix(_, _)
ShortenedPrefix(prefix, strings) ==
    IF Len(prefix) = 0 THEN prefix
    ELSE IF \A i \in 1..Len(strings) : StartsWith(strings[i], prefix) THEN prefix
    ELSE ShortenedPrefix(SubSeq(prefix, 1, Len(prefix) - 1), strings)

\* compute_longest_common_prefix without the loop
compute_longest_common_prefix_unshortened(strings) == ShortestString(strings)

compute_longest_common_prefix(strings) ==
    ShortenedPrefix(ShortestString(strings), strings)

\* the indices at which ^ matches under re.MULTILINE: the start of the
\* string and after every line feed
LineStarts(string) ==
    {1} \cup {i + 1 : i \in {j \in 1..Len(string) : string[j] = 10}}

\* re.sub(r'^ [^\S\n]+ \Z', '', string): a last line of whitespace is erased
LastLineErased(string) ==
    LET start == CHOOSE i \in LineStarts(string) : \A j \in LineStarts(string) : j <= i
    IN  IF /\ start <= Len(string)
           /\ \A i \in start..Len(string) : string[i] \in WhitespaceButNewline
        THEN SubSeq(string, 1, start - 1)
        ELSE string

\* re.findall(r'^ [^\S\n]+ | ^ (?! $ )', string): for every line start, in
\* order, the run of whitespace there, or the empty string if the line
\* starts with another code point; nothing for an empty line
RECURSIVE IndentationsFrom(_, _)
IndentationsFrom(string, i) ==
    IF i > Len(string) + 1 THEN <<>>
    ELSE IF i \notin LineStarts(string) \/ i > Len(string) \/ string[i] = 10
        THEN IndentationsFrom(string, i + 1)
    ELSE <<SubSeq(string, i, RunEndWithin(string, i, WhitespaceButNewline) - 1)>>
         \o IndentationsFrom(string, i + 1)

\* re.sub(f'^ {re.escape(prefix)}', '', string) from index i on
RECURSIVE PrefixRemovedFrom(_, _, _)
PrefixRemovedFrom(string, i, prefix) ==
    IF i > Len(string) THEN <<>>
    ELSE IF i \in LineStarts(string) /\ prefix # <<>> /\ StartsWithAt(string, i, prefix)
        THEN IF i + Len(prefix) > Len(string) THEN <<>>
             ELSE <<string[i + Len(prefix)]>>
                  \o PrefixRemovedFrom(string, i + Len(prefix) + 1, prefix)
    ELSE <<string[i]>> \o PrefixRemovedFrom(string, i + 1, prefix)

de_indent(string) ==
    PrefixRemovedFrom(LastLineErased(string), 1,
        compute_longest_common_prefix(IndentationsFrom(LastLineErased(string), 1)))

(***************************************************************************)
(* extract_rules_and_content                                               *)
(***************************************************************************)
PERCENT_SIGN == 37

LINE_FEED == 10

\* (?P<delimiter> ^ [%]{3,} ) \n matches at index i: i is the start of the
\* string or follows a line feed, at least three percent signs follow and
\* their greedy run is followed by a line feed
DelimiterAt(cmd, i) ==
    /\ (i = 1 \/ cmd[i - 1] = LINE_FEED)
    /\ RunEndWithin(cmd, i, {PERCENT_SIGN}) - i >= 3
    /\ RunEndWithin(cmd, i, {PERCENT_SIGN}) <= Len(cmd)
    /\ cmd[RunEndWithin(cmd, i, {PERCENT_SIGN})] = LINE_FEED

\* the groups of the full match for the delimiter found at index i
SplitAt(cmd, i) ==
    [replacement_rules |-> SubSeq(cmd, 1, i - 1),
     main_content |-> SubSeq(cmd, RunEndWithin(cmd, i, {PERCENT_SIGN}) + 1, Len(cmd))]

\* the greedy variant of the first group: the last delimiter is taken
extract_rules_and_content_greedy(cmd) ==
    LET starts == {i \in 1..Len(cmd) : DelimiterAt(cmd, i)}
    IN  IF starts = {} THEN [replacement_rules |-> NoString, main_content |-> cmd]
        ELSE SplitAt(cmd, CHOOSE i \in starts : \A other \in starts : other <= i)

\* The lazy group replacement_rules makes the first delimiter the one that
\* is taken; without a delimiter the optional group does not take part
\* (replacement_rules is None) and main_content is the whole string.
extract_rules_and_content(cmd) ==
    LET starts == {i \in 1..Len(cmd) : DelimiterAt(cmd, i)}
    IN  IF starts = {} THEN [replacement_rules |-> NoString, main_content |-> cmd]
        ELSE SplitAt(cmd, CHOOSE i \in starts : \A other \in starts : i <= other)

(***************************************************************************)
(* ExtensibleFenceReplacement: an inline rule with a tag name and with no  *)
(* flags, no prologue or epilogue delimiter, no attribute specifications,  *)
(* no prohibited content, no content or concluding replacements            *)
(***************************************************************************)
\* k times the character, at index j
RepeatedAt(string, j, character, k) ==
    /\ j + k - 1 <= Len(string)
    /\ \A n \in j..j + k - 1 : string[n] = character

\* where the closing delimiter starts, for an opening delimiter at index i
\* and a closing delimiter of k characters: after the shortest content, or 0
FenceClosingIndex(string, from, character, k) ==
    LET hits == {j \in from..Len(string) : RepeatedAt(string, j, character, k)}
    IN  IF hits = {} THEN 0 ELSE CHOOSE j \in hits : \A other \in hits : j <= other

NoFenceMatch == [k |-> 0, closing |-> 0, closing_length |-> 0]

\* a pattern whose closing delimiter is {min_length} instead of the
\* backreference
FenceMatchAtWithoutBackreference(string, i, character, min_length) ==
    LET lengths == {k \in min_length..Len(string) :
                       /\ RepeatedAt(string, i, character, k)
                       /\ FenceClosingIndex(string, i + k, character, min_length) # 0}
    IN  IF lengths = {} THEN NoFenceMatch
        ELSE LET longest == CHOOSE k \in lengths : \A other \in lengths : other <= k
             IN  [k |-> longest,
                  closing |-> FenceClosingIndex(string, i + longest, character, min_length),
                  closing_length |-> min_length]

\* The match of build_regex_pattern at index i. The opening delimiter
\* {min_length,} is greedy and gives characters back until the rest of the
\* pattern matches; the closing delimiter is (?P=extensible_delimiter),
\* what the opening delimiter matched. k is 0 when nothing matches at i.
FenceMatchAt(string, i, character, min_length) ==
    LET lengths == {k \in min_length..Len(string) :
                       /\ RepeatedAt(string, i, character, k)
                       /\ FenceClosingIndex(string, i + k, character, k) # 0}
    IN  IF lengths = {} THEN NoFenceMatch
        ELSE LET longest == CHOOSE k \in lengths : \A other \in lengths : other <= k
             IN  [k |-> longest,
                  closing |-> FenceClosingIndex(string, i + longest, character, longest),
                  closing_length |-> longest]

\* the matches re.sub finds from index i on, leftmost first
RECURSIVE FenceMatchesFrom(_, _, _, _)
FenceMatchesFrom(string, i, character, min_length) ==
    IF i > Len(string) THEN <<>>
    ELSE IF FenceMatchAt(string, i, character, min_length).k = 0
        THEN FenceMatchesFrom(string, i + 1, character, min_length)
    ELSE <<[start |-> i,
            k |-> FenceMatchAt(string, i, character, min_length).k,
            closing |-> FenceMatchAt(string, i, character, min_length).closing,
            closing_length |-> FenceMatchAt(string, i, character, min_length).closing_length]>>
         \o FenceMatchesFrom(string,
                FenceMatchAt(string, i, character, min_length).closing
                    + FenceMatchAt(string, i, character, min_length).closing_length,
                character, min_length)

FenceContent(string, match) == SubSeq(string, match.start + match.k, match.closing - 1)

\* the substitute function: <tag_name>content</tag_name>
FenceSubstitute(content, tag_name) ==
    <<60>> \o tag_name \o <<62>> \o content \o <<60, 47>> \o tag_name \o <<62>>

\* the string with the matches replaced, from index i on
RECURSIVE FenceReplacedFrom(_, _, _, _)
FenceReplacedFrom(string, i, matches, tag_name) ==
    IF matches = <<>> THEN SubSeq(string, i, Len(string))
    ELSE SubSeq(string, i, Head(matches).start - 1)
         \o FenceSubstitute(FenceContent(string, Head(matches)), tag_name)
         \o FenceReplacedFrom(string, Head(matches).closing + Head(matches).closing_length,
                              Tail(matches), tag_name)

\* ExtensibleFenceReplacement._apply
ExtensibleFenceApply(string, character, min_length, tag_name) ==
    FenceReplacedFrom(string, 1, FenceMatchesFrom(string, 1, character, min_length), tag_name)

(***************************************************************************)
(* ReplacementMaster: compiling rule documents (legislate) and running the *)
(* queue (execute), as cmd_to_html drives them                             *)
(***************************************************************************)
\* The text of an attribute value is a sequence of whitespace-separated
\* tokens, each a tuple: <<"NONE">>, <<"ROOT">>, <<"BEFORE", id>>,
\* <<"AFTER", id>> (the keyword, one space, #id), <<"#", id>>, <<"INLINE">>,
\* <<"(">>, <<")">>, and <<"?">> for text no attribute accepts.
NoValue == <<<<"None">>>>           \* Python's None, where a value may stand

NoReplacement == NewReplacement(None, None)     \* replacement = None

IdleMaster ==
    [opened_file_names |-> <<>>,
     replacement_from_id |-> <<>>,
     root_replacement_id |-> None,
     replacement_queue |-> <<>>]

\* the locals of legislate before its first line
NewLocals ==
    [class_name |-> None,
     replacement |-> NoReplacement,
     attribute_name |-> None,
     attribute_value |-> NoValue,
     substitution |-> NoValue]

NoOutput == [raised |-> "none", main_content |-> <<>>, html |-> <<>>, log |-> <<>>]

\* The file system the rule documents live in: missing.cmdr does not exist.
cmd_file_name == "doc.cmd"

Inode(file_name) ==
    CASE file_name = "doc.cmd" -> "inode-doc"
      [] file_name = "a.cmdr" -> "inode-a"
      [] OTHER -> None

FileExists(file_name) == Inode(file_name) # None

\* os.path.samefile, on files that exist
SameFile(file_name, other_file_name) == Inode(file_name) = Inode(other_file_name)

\* attribute_names() of the classes a rule document of the model declares
AttributeNames(class_name) ==
    CASE class_name = "ReplacementSequence" -> {"queue_position", "replacements"}
      [] class_name = "PlaceholderProtectionReplacement" -> {"queue_position"}
      [] class_name = "FixedDelimitersReplacement" ->
            {"queue_position", "syntax_type", "allowed_flags", "opening_delimiter",
             "attribute_specifications", "prohibited_content", "content_replacements",
             "closing_delimiter", "tag_name", "concluding_replacements"}

KnownClassNames ==
    {"ReplacementSequence", "PlaceholderProtectionReplacement",
     "FixedDelimitersReplacement"}

\* The state a call of legislate works on: the fields of the master, the
\* rules_file_name of every legislate call on the stack, the locals of the
\* innermost call, and the message of the error that ended the run (None
\* while it runs).
Exit(S, message) == [S EXCEPT !.error = message]

Exited(S) == S.error # None

\* replacement.<attribute> = value, for the outcome of a setter
Assign(S, outcome) ==
    IF outcome.raised # "none" THEN Exit(S, outcome.raised)
    ELSE [S EXCEPT !.replacement = outcome.self]

InQueue(S, id) == \E i \in 1..Len(S.replacement_queue) : S.replacement_queue[i] = id

\* The text of an id. A class declaration line is one that matches
\* [#] (?P<id_> [a-z0-9-.]+ ), the id of a queue_position value one that
\* matches [#] (?P<queue_reference_id> [a-z-.]+ ).
IdText(id) ==
    CASE id = "r" -> <<114>>
      [] id = "s" -> <<115>>
      [] id = "t" -> <<116>>
      [] id = "h1" -> <<104, 49>>
      [] id = "x-y" -> <<120, 45, 121>>

IdCharacters == (97..122) \cup (48..57) \cup {45, 46}

QueueReferenceIdCharacters == (97..122) \cup {45, 46}

IsId(text) == text # <<>> /\ Range(text) \subseteq IdCharacters

\* the queue reference id matched with the character class of the ids
IsQueueReferenceIdWithDigits(text) ==
    text # <<>> /\ Range(text) \subseteq IdCharacters

IsQueueReferenceId(text) ==
    text # <<>> /\ Range(text) \subseteq QueueReferenceIdCharacters

\* compute_queue_position_match takes the alternative invalid_value: the
\* value is not one of NONE, ROOT, BEFORE #id, AFTER #id
InvalidQueuePosition(attribute_value) ==
    \/ Len(attribute_value) # 1
    \/ attribute_value[1][1] \notin {"NONE", "ROOT", "BEFORE", "AFTER"}
    \/ /\ attribute_value[1][1] \in {"BEFORE", "AFTER"}
       /\ ~IsQueueReferenceId(IdText(attribute_value[1][2]))

\* stage_queue_position without the check of _root_replacement_id
stage_queue_position_without_root_check(S) ==
    IF InvalidQueuePosition(S.attribute_value)
    THEN Exit(S, "invalid value")
    ELSE IF S.attribute_value[1][1] = "NONE" THEN S
    ELSE IF S.attribute_value[1][1] = "ROOT"
        THEN Assign(Assign(S, set_queue_position_type(S.replacement, "ROOT")),
                    set_queue_reference_replacement(
                        set_queue_position_type(S.replacement, "ROOT").self, None))
    ELSE IF S.attribute_value[1][2] = S.replacement.id_
        THEN Exit(S, "self-referential queue_position")
    ELSE IF S.attribute_value[1][2] \notin DOMAIN S.replacement_from_id
        THEN Exit(S, "undefined replacement")
    ELSE IF ~InQueue(S, S.attribute_value[1][2])
        THEN Exit(S, "replacement not in queue")
    ELSE Assign(Assign(S, set_queue_position_type(S.replacement, S.attribute_value[1][1])),
                set_queue_reference_replacement(
                    set_queue_position_type(S.replacement, S.attribute_value[1][1]).self,
                    S.attribute_value[1][2]))

\* stage_queue_position without the check that the rule referenced is in
\* the queue
stage_queue_position_without_queue_check(S) ==
    IF InvalidQueuePosition(S.attribute_value)
    THEN Exit(S, "invalid value")
    ELSE IF S.attribute_value[1][1] = "NONE" THEN S
    ELSE IF S.attribute_value[1][1] = "ROOT"
        THEN IF S.root_replacement_id # None
             THEN Exit(S, "root replacement already declared")
             ELSE Assign(Assign(S, set_queue_position_type(S.replacement, "ROOT")),
                         set_queue_reference_replacement(
                             set_queue_position_type(S.replacement, "ROOT").self, None))
    ELSE IF S.attribute_value[1][2] = S.replacement.id_
        THEN Exit(S, "self-referential queue_position")
    ELSE IF S.attribute_value[1][2] \notin DOMAIN S.replacement_from_id
        THEN Exit(S, "undefined replacement")
    ELSE Assign(Assign(S, set_queue_position_type(S.replacement, S.attribute_value[1][1])),
                set_queue_reference_replacement(
                    set_queue_position_type(S.replacement, S.attribute_value[1][1]).self,
                    S.attribute_value[1][2]))

stage_queue_position(S) ==
    IF InvalidQueuePosition(S.attribute_value)
    THEN Exit(S, "invalid value")
    ELSE IF S.attribute_value[1][1] = "NONE" THEN S
    ELSE IF S.attribute_value[1][1] = "ROOT"
        THEN IF S.root_replacement_id # None
             THEN Exit(S, "root replacement already declared")
             ELSE Assign(Assign(S, set_queue_position_type(S.replacement, "ROOT")),
                         set_queue_reference_replacement(
                             set_queue_position_type(S.replacement, "ROOT").self, None))
    ELSE IF S.attribute_value[1][2] = S.replacement.id_
        THEN Exit(S, "self-referential queue_position")
    ELSE IF S.attribute_value[1][2] \notin DOMAIN S.replacement_from_id
        THEN Exit(S, "undefined replacement")
    ELSE IF ~InQueue(S, S.attribute_value[1][2])
        THEN Exit(S, "replacement not in queue")
    ELSE Assign(Assign(S, set_queue_position_type(S.replacement, S.attribute_value[1][1])),
                set_queue_reference_replacement(
                    set_queue_position_type(S.replacement, S.attribute_value[1][1]).self,
                    S.attribute_value[1][2]))

\* the loop below without the look-up in _replacement_from_id
RECURSIVE MatchedReplacementsUnchecked(_, _, _)
MatchedReplacementsUnchecked(S, value, matched) ==
    IF value = <<>> THEN [error |-> None, matched |-> matched]
    ELSE IF Head(value)[1] # "#"
        THEN [error |-> "invalid specification", matched |-> matched]
    ELSE MatchedReplacementsUnchecked(S, Tail(value), Append(matched, Head(value)[2]))

\* The loop of stage_replacements, stage_content_replacements and
\* stage_concluding_replacements over the matches of
\* compute_replacement_matches: the ids matched, or the first error.
RECURSIVE MatchedReplacements(_, _, _)
MatchedReplacements(S, value, matched) ==
    IF value = <<>> THEN [error |-> None, matched |-> matched]
    ELSE IF Head(value)[1] # "#"
        THEN [error |-> "invalid specification", matched |-> matched]
    ELSE IF /\ Head(value)[2] # S.replacement.id_
            /\ Head(value)[2] \notin DOMAIN S.replacement_from_id
        THEN [error |-> "undefined replacement", matched |-> matched]
    ELSE MatchedReplacements(S, Tail(value), Append(matched, Head(value)[2]))

stage_replacements(S) ==
    IF S.attribute_value = <<>> THEN Exit(S, "invalid specification")
    ELSE IF S.attribute_value = <<<<"NONE">>>> THEN S
    ELSE IF MatchedReplacements(S, S.attribute_value, <<>>).error # None
        THEN Exit(S, MatchedReplacements(S, S.attribute_value, <<>>).error)
    ELSE Assign(S, set_replacements(S.replacement,
                    MatchedReplacements(S, S.attribute_value, <<>>).matched))

stage_content_replacements(S) ==
    IF S.attribute_value = <<>> THEN Exit(S, "invalid specification")
    ELSE IF S.attribute_value = <<<<"NONE">>>> THEN S
    ELSE IF MatchedReplacements(S, S.attribute_value, <<>>).error # None
        THEN Exit(S, MatchedReplacements(S, S.attribute_value, <<>>).error)
    ELSE Assign(S, set_content_replacements(S.replacement,
                    MatchedReplacements(S, S.attribute_value, <<>>).matched))

stage_concluding_replacements(S) ==
    IF S.attribute_value = <<>> THEN Exit(S, "invalid specification")
    ELSE IF S.attribute_value = <<<<"NONE">>>> THEN S
    ELSE IF MatchedReplacements(S, S.attribute_value, <<>>).error # None
        THEN Exit(S, MatchedReplacements(S, S.attribute_value, <<>>).error)
    ELSE Assign(S, set_concluding_replacements(S.replacement,
                    MatchedReplacements(S, S.attribute_value, <<>>).matched))

stage_syntax_type(S) ==
    IF S.attribute_value \notin {<<<<"BLOCK">>>>, <<<<"INLINE">>>>}
    THEN Exit(S, "invalid value")
    ELSE Assign(S, set_syntax_type_is_block(S.replacement,
                    IF S.attribute_value = <<<<"BLOCK">>>> THEN "True" ELSE "False"))

\* the text of a delimiter token
DelimiterText(token) == IF token = <<"(">> THEN <<40>> ELSE <<41>>

stage_opening_delimiter(S) ==
    IF S.attribute_value = <<>> THEN Exit(S, "invalid value")
    ELSE Assign(S, set_opening_delimiter(S.replacement,
                    DelimiterText(S.attribute_value[1])))

stage_closing_delimiter(S) ==
    IF S.attribute_value = <<>> THEN Exit(S, "invalid value")
    ELSE Assign(S, set_closing_delimiter(S.replacement,
                    DelimiterText(S.attribute_value[1])))

\* stage: no class of the model is a dictionary, so a substitution is
\* refused; the attribute names are those the documents of the model use.
StageOfAttribute(S) ==
    IF S.substitution # NoValue THEN Exit(S, "class does not allow substitutions")
    ELSE CASE S.attribute_name = "queue_position" -> stage_queue_position(S)
           [] S.attribute_name = "replacements" -> stage_replacements(S)
           [] S.attribute_name = "content_replacements" -> stage_content_replacements(S)
           [] S.attribute_name = "concluding_replacements" ->
                  stage_concluding_replacements(S)
           [] S.attribute_name = "syntax_type" -> stage_syntax_type(S)
           [] S.attribute_name = "opening_delimiter" -> stage_opening_delimiter(S)
           [] S.attribute_name = "closing_delimiter" -> stage_closing_delimiter(S)

stage(S) ==
    IF Exited(StageOfAttribute(S)) THEN StageOfAttribute(S)
    ELSE [StageOfAttribute(S) EXCEPT
            !.attribute_name = None, !.attribute_value = NoValue,
            !.substitution = NoValue]

\* list.index and list.insert, with Python's indices (from 0)
ListIndex(list, value) ==
    (CHOOSE i \in 1..Len(list) :
        list[i] = value /\ \A j \in 1..(i - 1) : list[j] # value) - 1

ListInsert(list, index, value) ==
    SubSeq(list, 1, index) \o <<value>> \o SubSeq(list, index + 1, Len(list))

\* the index of insertion with BEFORE taken for AFTER
InsertionIndexAfterOnly(queue_position_type, queue_reference_index) ==
    queue_reference_index + 1

InsertionIndex(queue_position_type, queue_reference_index) ==
    IF queue_position_type = "BEFORE" THEN queue_reference_index
    ELSE queue_reference_index + 1

\* the registry left as it is
RegistryKept(registry, id, replacement) == registry

\* dict item assignment on _replacement_from_id
RegistrySet(registry, id, replacement) ==
    [x \in DOMAIN registry \cup {id} |-> IF x = id THEN replacement ELSE registry[x]]

commit(S) ==
    IF MissingAttribute(S.replacement) # None THEN Exit(S, "missing attribute")
    ELSE IF /\ S.replacement.queue_position_type \in {"BEFORE", "AFTER"}
            /\ ~InQueue(S, S.replacement.queue_reference_replacement)
        THEN Exit(S, "ValueError")     \* list.index, after the rule is registered
    ELSE [S EXCEPT
            !.replacement_from_id =
                RegistrySet(@, S.replacement.id_, commit_replacement(S.replacement)),
            !.root_replacement_id =
                IF S.replacement.queue_position_type = "ROOT"
                THEN S.replacement.id_ ELSE @,
            !.replacement_queue =
                IF S.replacement.queue_position_type = None THEN @
                ELSE IF S.replacement.queue_position_type = "ROOT"
                    THEN Append(@, S.replacement.id_)
                ELSE ListInsert(@,
                        InsertionIndex(S.replacement.queue_position_type,
                            ListIndex(@, S.replacement.queue_reference_replacement)),
                        S.replacement.id_),
            !.class_name = None,
            !.replacement = NoReplacement,
            !.attribute_name = None,
            !.attribute_value = NoValue,
            !.substitution = NoValue]

\* the pending declaration dropped instead of staged
DropIfPending(S) ==
    [S EXCEPT !.attribute_name = None, !.attribute_value = NoValue,
              !.substitution = NoValue]

\* if attribute_name is not None or substitution is not None: stage(...)
StageIfPending(S) ==
    IF S.attribute_name # None \/ S.substitution # NoValue THEN stage(S) ELSE S

\* the errors of stage reported without being fatal: the open rule is
\* committed all the same
CommitIfOpenAfterError(S) ==
    IF S.replacement = NoReplacement THEN S ELSE commit(S)

\* if replacement is not None: commit(...), unless the run has ended
CommitIfOpen(S) ==
    IF Exited(S) \/ S.replacement = NoReplacement THEN S ELSE commit(S)

\* process_rules_inclusion_line without the loop over _opened_file_names
process_rules_inclusion_line_without_chain_check(S, included_file_name) ==
    IF Exited(S) THEN S
    ELSE IF ~FileExists(included_file_name) THEN Exit(S, "file not found")
    ELSE [S EXCEPT
            !.opened_file_names = Append(@, included_file_name),
            !.rules_file_names = Append(@, included_file_name)]

process_rules_inclusion_line(S, included_file_name) ==
    IF Exited(S) THEN S
    ELSE IF ~FileExists(included_file_name) THEN Exit(S, "file not found")
    ELSE IF \E i \in 1..Len(S.opened_file_names) :
                SameFile(S.opened_file_names[i], included_file_name)
        THEN [Exit(S, "recursive inclusion") EXCEPT
                !.opened_file_names = Append(@, included_file_name)]
    ELSE [S EXCEPT
            !.opened_file_names = Append(@, included_file_name),
            !.rules_file_names = Append(@, included_file_name)]

\* process_class_declaration_line without the look-up of the id
process_class_declaration_line_without_id_check(S, class_name, id_) ==
    IF Exited(S) THEN S
    ELSE IF class_name \notin KnownClassNames
        THEN Exit(S, "unrecognised replacement class")
    ELSE [S EXCEPT !.class_name = class_name,
                   !.replacement = NewReplacement(class_name, id_)]

process_class_declaration_line(S, class_name, id_) ==
    IF Exited(S) THEN S
    ELSE IF class_name \notin KnownClassNames
        THEN Exit(S, "unrecognised replacement class")
    ELSE IF id_ \in DOMAIN S.replacement_from_id
        THEN Exit(S, "replacement already declared")
    ELSE [S EXCEPT !.class_name = class_name,
                   !.replacement = NewReplacement(class_name, id_)]

process_attribute_declaration_line(S, attribute_name, partial_attribute_value) ==
    IF Exited(S) THEN S
    ELSE IF S.replacement = NoReplacement
        THEN Exit(S, "attribute declaration without an active class declaration")
    ELSE IF attribute_name \notin AttributeNames(S.class_name)
        THEN Exit(S, "unrecognised attribute")
    ELSE [S EXCEPT !.attribute_name = attribute_name,
                   !.attribute_value =
                       (IF @ = NoValue THEN <<>> ELSE @) \o partial_attribute_value]

process_substitution_declaration_line(S, partial_substitution) ==
    IF Exited(S) THEN S
    ELSE IF S.replacement = NoReplacement
        THEN Exit(S, "substitution declaration without an active class declaration")
    ELSE [S EXCEPT !.substitution =
                       (IF @ = NoValue THEN <<>> ELSE @) \o partial_substitution]

process_continuation_line(S, continuation) ==
    IF S.attribute_name # None
    THEN [S EXCEPT !.attribute_value =
                       (IF @ = NoValue THEN <<>> ELSE @) \o continuation]
    ELSE IF S.substitution # NoValue
        THEN [S EXCEPT !.substitution = @ \o continuation]
    ELSE Exit(S, "continuation only allowed for attribute or substitution declarations")

\* The end of a call of legislate: control returns to the including call,
\* whose locals are all None (an inclusion line stages and commits before it
\* descends), or to cmd_to_html, which calls legislate on the rules of the
\* document after the standard rules.
ReturnFromLegislate(S) ==
    IF Exited(S) THEN S
    ELSE IF S.rules_file_names = <<"STANDARD_RULES">>
        THEN [S EXCEPT !.rules_file_names = <<cmd_file_name>>]
    ELSE [S EXCEPT !.rules_file_names = SubSeq(@, 1, Len(@) - 1)]

\* execute running the queue from its last rule to its first
execute_reversed(self, string) ==
    ApplyEach(self.replacement_from_id,
              [i \in 1..Len(self.replacement_queue) |->
                  self.replacement_queue[Len(self.replacement_queue) + 1 - i]],
              string, NoFlagNames, 0)

\* for replacement in self._replacement_queue: string = replacement.apply(string)
execute(self, string) ==
    ApplyEach(self.replacement_from_id, self.replacement_queue, string, NoFlagNames, 0)

(***************************************************************************)
(* One rule object driven by a caller                                      *)
(***************************************************************************)
\* The rule under test and a committed rule its concluding replacements
\* may name.
Helper == commit_replacement(NewReplacement("PlaceholderProtectionReplacement", "p"))

Objects(self) == [d |-> self, p |-> Helper]

FlagNameValues == {None, "F", "G"}
PatternValues == {<<97>>, <<97, 98>>}           \* "a", "ab"
SubstituteValues == {<<98>>}                    \* "b"
StringValues == {<<97, 98>>, <<98, 97, 97>>}    \* "ab", "baa"

NoCall ==
    [op |-> "none", raised |-> "none", string |-> <<>>,
     enabled_flag_names |-> NoFlagNames, returned |-> <<>>, log |-> <<>>]

SetterCall(op, outcome) ==
    [NoCall EXCEPT !.op = op, !.raised = outcome.raised]

\* the caller's rule after construction
NewRule == NewReplacement("OrdinaryDictionaryReplacement", "d")

RuleInit ==
    /\ rule = NewRule
    /\ call = NoCall
    /\ reference_from_label = NoReferences
    /\ conversions = NoConversions
    /\ history = <<>>
    /\ ph_input = <<>>
    /\ ph_string = <<>>
    /\ ph_calls = <<>>
    /\ ph_raised = "none"
    /\ master = IdleMaster
    /\ frames = <<>>
    /\ locals = NewLocals
    /\ pc = "idle"
    /\ error = None
    /\ output = NoOutput

CallSetter(op, outcome) ==
    /\ rule' = outcome.self
    /\ call' = SetterCall(op, outcome)
    /\ UNCHANGED <<ph_vars, master_vars, reference_vars, conversions>>

SetQueuePositionType ==
    \E value \in {None, "ROOT"} :
        CallSetter("queue_position_type", set_queue_position_type(rule, value))

SetQueueReferenceReplacement ==
    \E value \in {None, "p"} :
        CallSetter("queue_reference_replacement",
                   set_queue_reference_replacement(rule, value))

SetPositiveFlagName ==
    \E value \in FlagNameValues :
        CallSetter("positive_flag_name", set_positive_flag_name(rule, value))

SetNegativeFlagName ==
    \E value \in FlagNameValues :
        CallSetter("negative_flag_name", set_negative_flag_name(rule, value))

SetApplySubstitutionsSimultaneously ==
    \E value \in BOOLEAN :
        CallSetter("apply_substitutions_simultaneously",
                   set_apply_substitutions_simultaneously(rule, value))

SetConcludingReplacements ==
    \E value \in {<<>>, <<"p">>} :
        CallSetter("concluding_replacements", set_concluding_replacements(rule, value))

AddSubstitution ==
    \E pattern \in PatternValues, substitute \in SubstituteValues :
        /\ \/ Len(rule.substitute_from_pattern) < MaxSubstitutions
           \/ \E i \in 1..Len(rule.substitute_from_pattern) :
                  rule.substitute_from_pattern[i][1] = pattern
           \/ rule.is_committed
        /\ CallSetter("add_substitution", add_substitution(rule, pattern, substitute))

Commit ==
    /\ rule' = commit_replacement(rule)
    /\ call' = [NoCall EXCEPT !.op = "commit"]
    /\ UNCHANGED <<ph_vars, master_vars, reference_vars, conversions>>

Apply ==
    \E string \in StringValues,
       enabled_flag_names \in {NoFlagNames} \cup {FlagNames(S) : S \in SUBSET {"F", "G"}} :
        LET result == apply(Objects(rule), "d", string, enabled_flag_names, 0)
        IN  /\ call' = [op |-> "apply", raised |-> result.raised, string |-> string,
                        enabled_flag_names |-> enabled_flag_names,
                        returned |-> result.string, log |-> result.log]
            /\ UNCHANGED <<rule, ph_vars, master_vars, reference_vars, conversions>>

RuleNext ==
    \/ SetQueuePositionType
    \/ SetQueueReferenceReplacement
    \/ SetPositiveFlagName
    \/ SetNegativeFlagName
    \/ SetApplySubstitutionsSimultaneously
    \/ SetConcludingReplacements
    \/ AddSubstitution
    \/ Commit
    \/ Apply

RuleSpec == RuleInit /\ [][RuleNext]_vars

(***************************************************************************)
(* C4: apply on a committed rule, given a set of enabled flag names,       *)
(* returns its input unchanged and raises nothing when the positive flag   *)
(* is set and not in the set or the negative flag is set and in the set;   *)
(* in every other case the rule's transformation is run.                   *)
(***************************************************************************)
C4_FlagGating ==
    (call.op = "apply" /\ rule.is_committed /\ call.enabled_flag_names.given)
        => IF \/ /\ rule.positive_flag_name # None
                 /\ rule.positive_flag_name \notin call.enabled_flag_names.names
              \/ /\ rule.negative_flag_name # None
                 /\ rule.negative_flag_name \in call.enabled_flag_names.names
           THEN /\ call.raised = "none"
                /\ call.returned = call.string
                /\ call.log = <<>>
           ELSE /\ call.raised = "none"
                /\ call.log # <<>> /\ call.log[Len(call.log)] = rule.id_
                /\ call.returned = ApplyOfClass(Objects(rule), rule, call.string, 1).string

\* a rule gated off by its negative flag although its dictionary would
\* have rewritten the string
C4_Witness ==
    /\ call.op = "apply" /\ rule.is_committed
    /\ rule.positive_flag_name = "F" /\ rule.negative_flag_name = "G"
    /\ call.enabled_flag_names = FlagNames({"F", "G"})
    /\ call.returned = call.string
    /\ ApplyOfClass(Objects(rule), rule, call.string, 1).string # call.string

(***************************************************************************)
(* C5: a rule is staged or committed, and stays committed; a setter (or    *)
(* add_substitution) called on a committed rule raises                     *)
(* CommittedMutateException and changes nothing; apply called on a staged  *)
(* rule raises UncommittedApplyException and runs no transformation.       *)
(***************************************************************************)
SetterNames ==
    {"queue_position_type", "queue_reference_replacement", "positive_flag_name",
     "negative_flag_name", "apply_substitutions_simultaneously",
     "concluding_replacements", "add_substitution"}

C5_TwoPhase ==
    [][/\ rule.is_committed => rule'.is_committed
       /\ (call'.op \in SetterNames /\ rule.is_committed)
            => (call'.raised = "CommittedMutateException" /\ rule' = rule)
       /\ (call'.op \in SetterNames /\ ~rule.is_committed)
            => (call'.raised = "none" /\ ~rule'.is_committed)
       /\ (call'.op = "apply" /\ ~rule.is_committed)
            => /\ call'.raised = "UncommittedApplyException"
               /\ call'.log = <<>>
               /\ rule' = rule]_vars

\* add_substitution refused on a committed rule that has a substitution
C5_Witness ==
    /\ rule.is_committed
    /\ Len(rule.substitute_from_pattern) = 1
    /\ call.op = "add_substitution"
    /\ call.raised = "CommittedMutateException"

(***************************************************************************)
(* cmd_to_html: the master is constructed, legislate reads the standard    *)
(* rules and then the rules of the document, one line per step, and        *)
(* execute runs the queue on the main content                              *)
(***************************************************************************)
Ids == {"r", "s", "t"}

MaxTokens == 2          \* most tokens in one attribute value or substitution

ClassDeclarations ==
    {<<"PlaceholderProtectionReplacement", "r">>,
     <<"FixedDelimitersReplacement", "s">>,
     <<"ReplacementSequence", "t">>,
     <<"PlaceholderProtectionReplacement", "s">>,
     <<"NoSuchReplacement", "r">>}

\* the values an attribute declaration line of the model gives: no token or one
AttributeValues(attribute_name) ==
    CASE attribute_name = "queue_position" ->
            {<<<<"ROOT">>>>, <<<<"AFTER", "r">>>>, <<<<"BEFORE", "s">>>>, <<<<"?">>>>}
      [] attribute_name = "replacements" ->
            {<<>>, <<<<"NONE">>>>, <<<<"#", "s">>>>, <<<<"#", "t">>>>}
      [] attribute_name = "content_replacements" -> {<<<<"#", "r">>>>, <<<<"#", "s">>>>}
      [] attribute_name = "concluding_replacements" -> {<<<<"#", "t">>>>}
      [] attribute_name = "syntax_type" -> {<<<<"INLINE">>>>}
      [] attribute_name = "opening_delimiter" -> {<<<<"(">>>>}
      [] attribute_name = "closing_delimiter" -> {<<<<")">>>>}

AttributeNameValues ==
    {"queue_position", "replacements", "content_replacements",
     "concluding_replacements", "syntax_type", "opening_delimiter",
     "closing_delimiter"}

ContinuationValues == {<<<<"#", "r">>>>}

IncludedFileNames == {"doc.cmd", "a.cmdr", "missing.cmdr"}

MainContents == {<<40, 97, 41>>, <<97, 40>>}        \* "(a)", "a("

MasterInit ==
    /\ master = [IdleMaster EXCEPT !.opened_file_names = <<cmd_file_name>>]
    /\ frames = <<"STANDARD_RULES">>
    /\ locals = NewLocals
    /\ pc = "legislate"
    /\ error = None
    /\ output = NoOutput
    /\ ph_input = <<>>
    /\ ph_string = <<>>
    /\ ph_calls = <<>>
    /\ ph_raised = "none"
    /\ rule = NewRule
    /\ call = NoCall
    /\ reference_from_label = NoReferences
    /\ conversions = NoConversions
    /\ history = <<>>

\* the state legislate works on
Legislating ==
    [opened_file_names |-> master.opened_file_names,
     replacement_from_id |-> master.replacement_from_id,
     root_replacement_id |-> master.root_replacement_id,
     replacement_queue |-> master.replacement_queue,
     rules_file_names |-> frames,
     class_name |-> locals.class_name,
     replacement |-> locals.replacement,
     attribute_name |-> locals.attribute_name,
     attribute_value |-> locals.attribute_value,
     substitution |-> locals.substitution,
     error |-> None]

\* One line read by the innermost call of legislate. sys.exit raises
\* SystemExit, which unwinds every call of legislate: their locals are gone,
\* the master is left as it was when the error was found.
Line(S) ==
    /\ pc = "legislate"
    /\ master' = [opened_file_names |-> S.opened_file_names,
                  replacement_from_id |-> S.replacement_from_id,
                  root_replacement_id |-> S.root_replacement_id,
                  replacement_queue |-> S.replacement_queue]
    /\ frames' = IF Exited(S) THEN <<>> ELSE S.rules_file_names
    /\ locals' = IF Exited(S) THEN NewLocals
                 ELSE [class_name |-> S.class_name,
                       replacement |-> S.replacement,
                       attribute_name |-> S.attribute_name,
                       attribute_value |-> S.attribute_value,
                       substitution |-> S.substitution]
    /\ error' = S.error
    /\ pc' = IF Exited(S) THEN "exited"
             ELSE IF S.rules_file_names = <<>> THEN "legislated"
             ELSE "legislate"
    /\ UNCHANGED <<output, ph_vars, rule_vars, reference_vars, conversions>>

WhitespaceOnlyLine ==
    /\ pc = "legislate"
    /\ Line(CommitIfOpen(StageIfPending(Legislating)))

CommentLine ==
    /\ pc = "legislate"
    /\ Line(Legislating)

RulesInclusionLine ==
    \E included_file_name \in IncludedFileNames :
        /\ pc = "legislate"
        /\ frames[Len(frames)] # "STANDARD_RULES"
        /\ Line(process_rules_inclusion_line(
                    CommitIfOpen(StageIfPending(Legislating)), included_file_name))

ClassDeclarationLine ==
    \E declaration \in ClassDeclarations :
        /\ pc = "legislate"
        /\ Line(process_class_declaration_line(
                    CommitIfOpen(StageIfPending(Legislating)),
                    declaration[1], declaration[2]))

AttributeDeclarationLine ==
    \E attribute_name \in AttributeNameValues :
        \E partial_attribute_value \in AttributeValues(attribute_name) :
            /\ pc = "legislate"
            /\ Line(process_attribute_declaration_line(
                        StageIfPending(Legislating),
                        attribute_name, partial_attribute_value))

SubstitutionDeclarationLine ==
    /\ pc = "legislate"
    /\ Line(process_substitution_declaration_line(
                StageIfPending(Legislating), <<<<"?">>>>))

ContinuationLine ==
    \E continuation \in ContinuationValues :
        /\ pc = "legislate"
        /\ locals.attribute_name \in {None, "replacements"}
        /\ Len(locals.attribute_value) < MaxTokens
        /\ Len(locals.substitution) < MaxTokens
        /\ Line(process_continuation_line(Legislating, continuation))

InvalidLine ==
    /\ pc = "legislate"
    /\ Line(Exit(Legislating, "invalid syntax"))

EndOfFile ==
    /\ pc = "legislate"
    /\ Line(ReturnFromLegislate(CommitIfOpen(StageIfPending(Legislating))))

Execute ==
    \E main_content \in MainContents :
        /\ pc = "legislated"
        /\ pc' = "executed"
        /\ output' = [raised |-> execute(master, main_content).raised,
                      main_content |-> main_content,
                      html |-> execute(master, main_content).string,
                      log |-> execute(master, main_content).log]
        /\ UNCHANGED <<master, frames, locals, error, ph_vars, rule_vars, reference_vars, conversions>>

MasterNext ==
    \/ WhitespaceOnlyLine
    \/ CommentLine
    \/ RulesInclusionLine
    \/ ClassDeclarationLine
    \/ AttributeDeclarationLine
    \/ SubstitutionDeclarationLine
    \/ ContinuationLine
    \/ InvalidLine
    \/ EndOfFile
    \/ Execute

MasterSpec == MasterInit /\ [][MasterNext]_vars

(***************************************************************************)
(* Vocabulary of the properties of the compiler                            *)
(***************************************************************************)
Registry == master.replacement_from_id

Queue == master.replacement_queue

Open == locals.replacement

\* the step reads a continuation line: the pending value grows, nothing is staged
Continued ==
    /\ pc' = "legislate"
    /\ locals'.attribute_name = locals.attribute_name
    /\ Len(locals'.attribute_value) > Len(locals.attribute_value)
    /\ SubSeq(locals'.attribute_value, 1, Len(locals.attribute_value))
           = locals.attribute_value

ExitsWith(message) == pc' = "exited" /\ error' = message

\* the step stages the pending declaration of the attribute named: the line
\* read is not a continuation line, and not a line of invalid syntax, which
\* ends the run before anything is staged
Stages(attribute_name) ==
    /\ pc = "legislate"
    /\ locals.attribute_name = attribute_name
    /\ ~Continued
    /\ ~ExitsWith("invalid syntax")

\* the step commits the open rule
Commits ==
    /\ pc = "legislate"
    /\ Open # NoReplacement
    /\ Open.id_ \notin DOMAIN Registry
    /\ Open.id_ \in DOMAIN master'.replacement_from_id

(***************************************************************************)
(* C2: a rule committed with position AFTER #x is inserted immediately     *)
(* after the position x has in the queue at that moment, and one committed *)
(* BEFORE #x immediately before it; the rules r (ROOT), s (AFTER #r) and   *)
(* t (BEFORE #s) produce the queue r, t, s.                                *)
(***************************************************************************)
\* queue' is queue with id put at position p (from 1), the rest in order
InsertedAt(queue, p, id, queue_after) ==
    /\ Len(queue_after) = Len(queue) + 1
    /\ queue_after[p] = id
    /\ \A i \in 1..Len(queue) :
           queue_after[IF i < p THEN i ELSE i + 1] = queue[i]

CommittedRule == master'.replacement_from_id[Open.id_]

C2_Insertion ==
    [][Commits =>
        /\ CommittedRule.queue_position_type = "AFTER" =>
               \E p \in 1..Len(Queue) :
                   /\ Queue[p] = CommittedRule.queue_reference_replacement
                   /\ InsertedAt(Queue, p + 1, Open.id_, master'.replacement_queue)
        /\ CommittedRule.queue_position_type = "BEFORE" =>
               \E p \in 1..Len(Queue) :
                   /\ Queue[p] = CommittedRule.queue_reference_replacement
                   /\ InsertedAt(Queue, p, Open.id_, master'.replacement_queue)]_vars

C2_Example ==
    (/\ DOMAIN Registry = {"r", "s", "t"}
     /\ Registry["r"].queue_position_type = "ROOT"
     /\ Registry["s"].queue_position_type = "AFTER"
     /\ Registry["s"].queue_reference_replacement = "r"
     /\ Registry["t"].queue_position_type = "BEFORE"
     /\ Registry["t"].queue_reference_replacement = "s")
        => Queue = <<"r", "t", "s">>

C2_QueueInsertion == C2_Insertion /\ []C2_Example

\* r (ROOT), s (AFTER #r) and t (BEFORE #s) compiled, the queue r, t, s
C2_Witness ==
    /\ pc = "legislated"
    /\ DOMAIN Registry = {"r", "s", "t"}
    /\ Registry["r"].queue_position_type = "ROOT"
    /\ Registry["s"].queue_position_type = "AFTER"
    /\ Registry["s"].queue_reference_replacement = "r"
    /\ Registry["t"].queue_position_type = "BEFORE"
    /\ Registry["t"].queue_reference_replacement = "s"
    /\ Queue = <<"r", "t", "s">>

(***************************************************************************)
(* C3: execute applies exactly the rules of the queue, each once, in queue *)
(* order, feeding the output of each rule to the next, and returns the     *)
(* last output; a committed rule with no queue position is not applied by  *)
(* this pass, only through the content, concluding or sequence lists of    *)
(* other rules.                                                            *)
(***************************************************************************)
\* the outcome of the i-th application of the pass: the rule at position i
\* of the queue applied to the output of the application before it
PassOutcome[i \in 0..Len(Queue)] ==
    IF i = 0 THEN Applied(output.main_content, <<>>)
    ELSE IF PassOutcome[i - 1].raised # "none" THEN Failed(PassOutcome[i - 1].raised, <<>>)
    ELSE apply(Registry, Queue[i], PassOutcome[i - 1].string, NoFlagNames, 0)

\* the ids of the rules the lists of a rule name
Listed(id) ==
    Range(Registry[id].replacements)
        \cup Range(Registry[id].content_replacements)
        \cup Range(Registry[id].concluding_replacements)

RECURSIVE ReachableIn(_, _)
ReachableIn(ids, steps) ==
    IF steps = 0 THEN ids
    ELSE ReachableIn(ids \cup UNION {Listed(id) : id \in ids}, steps - 1)

\* the rules reachable from the rules of the queue through lists
ReachableFromQueue == ReachableIn(Range(Queue), Cardinality(DOMAIN Registry))

C3_Execute ==
    pc = "executed" =>
        /\ output.raised = PassOutcome[Len(Queue)].raised
        /\ output.raised = "none" =>
               /\ output.html = PassOutcome[Len(Queue)].string
               /\ output.log = Flatten([i \in 1..Len(Queue) |-> PassOutcome[i].log])
               /\ \A i \in 1..Len(Queue) :
                      /\ PassOutcome[i].log # <<>>
                      /\ PassOutcome[i].log[Len(PassOutcome[i].log)] = Queue[i]
        /\ \A id \in DOMAIN Registry :
               (id \notin Range(Queue) /\ id \in Range(output.log))
                   => id \in ReachableFromQueue \ Range(Queue)

\* a queue of two rules whose order matters, the second a sequence that
\* applies a committed rule that has no queue position
C3_Witness ==
    /\ pc = "executed"
    /\ output.raised = "none"
    /\ Queue = <<"r", "t">>
    /\ "s" \in DOMAIN Registry
    /\ Registry["t"].replacements = <<"s">>
    /\ output.log = <<"r", "s", "t">>
    /\ output.main_content = <<40, 97, 41>>
    /\ output.html = protect(<<40, 97, 41>>).string

(***************************************************************************)
(* C6: at most one committed rule has queue position ROOT; a ROOT          *)
(* declaration made on a rule after another ROOT rule has been committed   *)
(* is a fatal compile error and leaves the queue unchanged.                *)
(***************************************************************************)
RootRules == {id \in DOMAIN Registry : Registry[id].queue_position_type = "ROOT"}

C6_OneRoot == Cardinality(RootRules) <= 1

C6_SecondRootFatal ==
    [][(/\ Stages("queue_position")
        /\ locals.attribute_value = <<<<"ROOT">>>>
        /\ RootRules # {})
           => /\ ExitsWith("root replacement already declared")
              /\ master' = master]_vars

C6_SingleRoot == []C6_OneRoot /\ C6_SecondRootFatal

\* a ROOT declaration refused, the root rule alone in the queue
C6_Witness ==
    /\ pc = "exited"
    /\ error = "root replacement already declared"
    /\ RootRules = {"r"}
    /\ Queue = <<"r">>
    /\ "s" \in DOMAIN Registry

(***************************************************************************)
(* C7: a BEFORE or AFTER declaration is a fatal compile error when the id  *)
(* it references is the own id of the rule, is not the id of a rule        *)
(* already committed, or is the id of a committed rule that is not in the  *)
(* queue; so no forward reference is accepted, and when a rule is          *)
(* committed the rule it references is found in the queue.                 *)
(***************************************************************************)
PendingReference == locals.attribute_value[1][2]

C7_BadReferenceFatal ==
    [][(/\ Stages("queue_position")
        /\ Len(locals.attribute_value) = 1
        /\ locals.attribute_value[1][1] \in {"BEFORE", "AFTER"})
           => /\ PendingReference = Open.id_
                  => ExitsWith("self-referential queue_position")
              /\ (PendingReference # Open.id_ /\ PendingReference \notin DOMAIN Registry)
                  => ExitsWith("undefined replacement")
              /\ (/\ PendingReference # Open.id_
                  /\ PendingReference \in DOMAIN Registry
                  /\ PendingReference \notin Range(Queue))
                  => ExitsWith("replacement not in queue")]_vars

C7_ReferenceInQueue ==
    /\ error # "ValueError"
    /\ Open.queue_position_type \in {"BEFORE", "AFTER"}
           => /\ Open.queue_reference_replacement \in DOMAIN Registry
              /\ Open.queue_reference_replacement \in Range(Queue)
    /\ \A id \in DOMAIN Registry :
           Registry[id].queue_position_type \in {"BEFORE", "AFTER"}
               => /\ Registry[id].queue_reference_replacement \in Range(Queue)
                  /\ id \in Range(Queue)

C7_QueueReference == C7_BadReferenceFatal /\ []C7_ReferenceInQueue

\* a reference to a committed rule that has no queue position, refused
C7_Witness ==
    /\ pc = "exited"
    /\ error = "replacement not in queue"
    /\ "r" \in DOMAIN Registry
    /\ "r" \notin Range(Queue)

(***************************************************************************)
(* C8: each id in content_replacements, in concluding_replacements and in  *)
(* the replacements of a ReplacementSequence must be the own id of the     *)
(* rule or the id of a rule already committed, any other id is a fatal     *)
(* compile error; so after a compilation that succeeds every rule          *)
(* reachable through these lists is a committed rule.                      *)
(***************************************************************************)
ListAttributeNames == {"replacements", "content_replacements", "concluding_replacements"}

\* the pending value names a rule that is neither the open rule nor committed
NamesUnknownRule ==
    \E i \in 1..Len(locals.attribute_value) :
        /\ locals.attribute_value[i][1] = "#"
        /\ locals.attribute_value[i][2] # Open.id_
        /\ locals.attribute_value[i][2] \notin DOMAIN Registry

AllAreIds ==
    \A i \in 1..Len(locals.attribute_value) : locals.attribute_value[i][1] = "#"

C8_UnknownIdFatal ==
    [][\A attribute_name \in ListAttributeNames :
        (Stages(attribute_name) /\ NamesUnknownRule)
            => /\ pc' = "exited"
               /\ error' \in {"undefined replacement", "invalid specification"}
               /\ AllAreIds => error' = "undefined replacement"
               /\ master' = master]_vars

ListsOf(replacement) ==
    Range(replacement.replacements)
        \cup Range(replacement.content_replacements)
        \cup Range(replacement.concluding_replacements)

C8_ListedAreCommitted ==
    /\ Open # NoReplacement => ListsOf(Open) \subseteq DOMAIN Registry \cup {Open.id_}
    /\ \A id \in DOMAIN Registry :
           /\ Registry[id].is_committed
           /\ ListsOf(Registry[id]) \subseteq DOMAIN Registry
    /\ pc \in {"legislated", "executed"} => ReachableFromQueue \subseteq DOMAIN Registry

C8_ListedRules == C8_UnknownIdFatal /\ []C8_ListedAreCommitted

\* a compilation that succeeded: a sequence in the queue that lists itself
\* and a committed rule, a delimiter rule that lists committed rules
C8_Witness ==
    /\ pc = "legislated"
    /\ DOMAIN Registry = {"r", "s", "t"}
    /\ Registry["t"].replacements = <<"t", "r">>
    /\ Registry["s"].content_replacements = <<"r">>
    /\ Registry["s"].concluding_replacements = <<"t">>
    /\ "s" \in Range(Queue)

(***************************************************************************)
(* C9: a class declaration whose id is the id of a rule declared earlier   *)
(* (in the standard rules, the document or an included file) is a fatal    *)
(* compile error; so an id names at most one rule, and an entry of the     *)
(* registry is never replaced.                                             *)
(***************************************************************************)
C9_OpenIdIsNew == Open # NoReplacement => Open.id_ \notin DOMAIN Registry

C9_EntryKept ==
    [][\A id \in DOMAIN Registry :
        /\ id \in DOMAIN master'.replacement_from_id
        /\ master'.replacement_from_id[id] = Registry[id]]_vars

C9_UniqueIds == []C9_OpenIdIsNew /\ C9_EntryKept

\* a second declaration of an id, refused in a file included by the document
C9_Witness ==
    /\ pc = "exited"
    /\ error = "replacement already declared"
    /\ master.opened_file_names = <<"doc.cmd", "a.cmdr">>
    /\ DOMAIN Registry = {"s"}
    /\ Registry["s"].class_name = "FixedDelimitersReplacement"

(***************************************************************************)
(* C10: a rule document that includes itself, directly or through other    *)
(* documents, is a fatal compile error (recursive inclusion): legislate    *)
(* never descends into a file that is open on the chain of inclusions, and *)
(* each descent opens a file not opened before, so the compilation of a    *)
(* finite set of files ends.                                               *)
(***************************************************************************)
Files == {frames[i] : i \in 1..Len(frames)} \ {"STANDARD_RULES"}

Distinct(file_names) ==
    \A i, j \in 1..Len(file_names) :
        i # j => ~SameFile(file_names[i], file_names[j])

C10_ChainIsAcyclic ==
    pc = "legislate" =>
        /\ Distinct(frames)
        /\ Distinct(master.opened_file_names)
        /\ Files \subseteq Range(master.opened_file_names)

\* the file an inclusion line of the step names: the last file opened
Included == master'.opened_file_names[Len(master'.opened_file_names)]

C10_SelfInclusionFatal ==
    [][(/\ pc = "legislate"
        /\ master'.opened_file_names # master.opened_file_names)
           => /\ (\E file_name \in Files : SameFile(file_name, Included))
                  => ExitsWith("recursive inclusion")
              /\ pc' = "legislate"
                  => /\ frames' = Append(frames, Included)
                     /\ \A file_name \in Files : ~SameFile(file_name, Included)]_vars

\* The compilation of documents of class declarations, blank lines, comments
\* and inclusion lines. A document is a finite text: the loop of legislate
\* over its lines reaches the end of the file unless the run ends before,
\* and cmd_to_html calls execute once legislate has returned.
InclusionNext ==
    \/ WhitespaceOnlyLine
    \/ CommentLine
    \/ RulesInclusionLine
    \/ ClassDeclarationLine
    \/ InvalidLine
    \/ EndOfFile
    \/ Execute

InclusionSpec ==
    /\ MasterInit
    /\ [][InclusionNext]_vars
    /\ WF_vars(EndOfFile)
    /\ WF_vars(Execute)

C10_Ends == <>(pc \in {"exited", "executed"})

C10_NoRecursiveInclusion == []C10_ChainIsAcyclic /\ C10_SelfInclusionFatal /\ C10_Ends

\* the document includes a.cmdr, which includes the document
C10_Witness ==
    /\ pc = "exited"
    /\ error = "recursive inclusion"
    /\ master.opened_file_names = <<"doc.cmd", "a.cmdr", "doc.cmd">>

(***************************************************************************)
(* C11: a fatal error of the rule language ends the conversion at once     *)
(***************************************************************************)
\* the errors found in the line read itself, after the declaration before
\* it has been staged and the rule before it committed
LineErrors ==
    {"file not found", "recursive inclusion", "unrecognised replacement class",
     "replacement already declared"}

\* the step ends the run with a fatal error
Aborts == pc = "legislate" /\ pc' = "exited"

\* the queue with the open rule inserted at some index
QueueWithOpen ==
    {ListInsert(Queue, i, Open.id_) : i \in 0..Len(Queue)}

\* An aborting step commits and queues nothing once its error is found. An
\* error of staging or of commit leaves registry and queue as they were; an
\* error of the line itself is found after the rule before it was committed:
\* at most that one rule has entered the registry and the queue.
C11_AbortCommitsNothing ==
    [][Aborts =>
        \/ /\ master'.replacement_from_id = Registry
           /\ master'.replacement_queue = Queue
        \/ /\ error' \in LineErrors
           /\ Commits
           /\ master'.replacement_from_id =
                  RegistrySet(Registry, Open.id_, master'.replacement_from_id[Open.id_])
           /\ master'.replacement_queue \in {Queue} \cup QueueWithOpen]_vars

\* After the abort no line is read and execute is not called: no step leaves
\* a state whose run has ended with an error.
C11_NothingAfterAbort == [][pc # "exited" /\ error = None]_vars

\* A run that ended with an error has returned no HTML, and a conversion
\* that returned HTML met no error.
C11_NoHtml ==
    /\ error # None <=> pc = "exited"
    /\ pc = "exited" => output = NoOutput
    /\ output # NoOutput => pc = "executed" /\ error = None

\* C11: if a fatal error occurs while the standard rules or the rules of
\* the document are compiled, the conversion aborts at that first error: no
\* later rule line is processed, no further rule is committed or queued,
\* execute is never called and no HTML is returned.
C11_FailFast == []C11_NoHtml /\ C11_AbortCommitsNothing /\ C11_NothingAfterAbort

\* a declaration that cannot be staged ends a run that had queued two rules
C11_Witness ==
    /\ pc = "exited"
    /\ error = "invalid value"
    /\ Len(Queue) = 2
    /\ output = NoOutput

(***************************************************************************)
(* A ReferenceMaster driven by a caller                                    *)
(***************************************************************************)
MaxStores == 2

\* "A", "a", "b", "Ab", "aB", "@", "`" (which differ by 32 and are no
\* letters), and the multiplication and division signs (likewise)
Labels ==
    {<<65>>, <<97>>, <<98>>, <<65, 98>>, <<97, 66>>, <<64>>, <<96>>, <<215>>, <<247>>}

\* two references that differ in every component
References ==
    {Reference(<<>>, <<117>>, <<116>>), Reference(<<46, 99>>, <<118>>, <<>>)}

ReferenceInit ==
    /\ reference_from_label = NoReferences
    /\ conversions = NoConversions
    /\ history = <<>>
    /\ call = NoCall
    /\ rule = NewRule
    /\ master = IdleMaster
    /\ frames = <<>>
    /\ locals = NewLocals
    /\ pc = "idle"
    /\ error = None
    /\ output = NoOutput
    /\ ph_input = <<>>
    /\ ph_string = <<>>
    /\ ph_calls = <<>>
    /\ ph_raised = "none"

StoreDefinition ==
    \E label \in Labels, reference \in References :
        /\ Len(history) < MaxStores
        /\ reference_from_label' =
               store_definition(reference_from_label, label,
                   reference.attribute_specifications, reference.uri, reference.title)
        /\ history' = Append(history, [label |-> label, reference |-> reference])
        /\ call' = [NoCall EXCEPT !.op = "store_definition", !.string = label]
        /\ UNCHANGED <<rule, ph_vars, master_vars, conversions>>

LoadDefinition ==
    \E label \in Labels :
        /\ call' = [NoCall EXCEPT
                        !.op = "load_definition",
                        !.string = label,
                        !.raised = load_definition(reference_from_label, label).raised,
                        !.returned = load_definition(reference_from_label, label).returned]
        /\ UNCHANGED <<reference_from_label, history, rule, ph_vars, master_vars, conversions>>

ReferenceNext == StoreDefinition \/ LoadDefinition

ReferenceSpec == ReferenceInit /\ [][ReferenceNext]_vars

(***************************************************************************)
(* C12: load_definition returns the most recent definition stored under a  *)
(* label equal to the given one ignoring letter case                       *)
(***************************************************************************)
\* two code points are the same letter in either case, or the same code point
SameLetter(a, b) ==
    \/ a = b
    \/ \E capital \in (65..90) \cup ((192..222) \ {215}) :
          {a, b} = {capital, capital + 32}

EqualIgnoringCase(label, other) ==
    /\ Len(label) = Len(other)
    /\ \A i \in 1..Len(label) : SameLetter(label[i], other[i])

\* the positions in the history of the stores under a label equal to the
\* one given, ignoring letter case
StoresOf(label) ==
    {i \in 1..Len(history) : EqualIgnoringCase(history[i].label, label)}

MostRecentStore(label) ==
    history[CHOOSE i \in StoresOf(label) : \A j \in StoresOf(label) : j <= i].reference

\* the call just made is load_definition: it raised exactly if no store of
\* the label has happened, and returned the reference of the latest otherwise
C12_LoadedIsLatest ==
    call.op = "load_definition" =>
        IF StoresOf(call.string) = {}
        THEN call.raised = "UnrecognisedLabelException"
        ELSE /\ call.raised = "none"
             /\ call.returned =
                    <<MostRecentStore(call.string).attribute_specifications,
                      MostRecentStore(call.string).uri,
                      MostRecentStore(call.string).title>>

\* every label of the table, whenever looked up, answers with its latest store
C12_TableIsLatest ==
    \A label \in Labels :
        IF StoresOf(label) = {}
        THEN load_definition(reference_from_label, label).raised
                 = "UnrecognisedLabelException"
        ELSE load_definition(reference_from_label, label).returned
                 = <<MostRecentStore(label).attribute_specifications,
                     MostRecentStore(label).uri,
                     MostRecentStore(label).title>>

\* C12: after any sequence of store_definition calls, load_definition(label)
\* returns the (attribute specifications, URI, title) of the most recent
\* store whose label equals the given label ignoring letter case, and raises
\* UnrecognisedLabelException if and only if no such store has happened;
\* load_definition never changes the table.
C12_LoadDefinition ==
    /\ [](C12_LoadedIsLatest /\ C12_TableIsLatest)
    /\ [][call'.op = "load_definition" => reference_from_label' = reference_from_label]_vars

\* "aB" is stored, then "Ab" with another reference; "aB" is loaded and
\* answers with the second store
C12_Witness ==
    /\ call.op = "load_definition"
    /\ call.raised = "none"
    /\ Len(history) = 2
    /\ history[1].label = <<97, 66>>
    /\ history[2].label = <<65, 98>>
    /\ history[1].reference # history[2].reference
    /\ call.string = <<97, 66>>
    /\ call.returned[2] = history[2].reference.uri

(***************************************************************************)
(* A referenced image rule and a referenced link rule applied to forms,    *)
(* their reference table filled by a caller                                *)
(***************************************************************************)
\* "a", "A", " b", the empty text, and a marker, U+E100, a marker
ReferencedTexts ==
    {<<97>>, <<65>>, <<32, 98>>, <<>>, <<MARKER, RUN_CODE_POINT_MAX, MARKER>>}

\* no label, the empty label, "a", "B"
ReferencedLabels == {NoString, <<>>, <<97>>, <<66>>}

\* ![text][label] or [text][label], or without the label
Form(is_image, text, label) ==
    (IF is_image THEN <<33>> ELSE <<>>) \o <<91>> \o text \o <<93>>
    \o (IF label = NoString THEN <<>> ELSE <<91>> \o label \o <<93>>)

ApplyReferenced(is_image) ==
    \E text \in ReferencedTexts, label \in ReferencedLabels :
        /\ call' = [NoCall EXCEPT
                        !.op = IF is_image THEN "ReferencedImageReplacement.apply"
                               ELSE "ReferencedLinkReplacement.apply",
                        !.string = Form(is_image, text, label),
                        !.raised =
                            ReferencedApplyFrom(reference_from_label,
                                Form(is_image, text, label), 1, is_image).raised,
                        !.returned =
                            ReferencedApplyFrom(reference_from_label,
                                Form(is_image, text, label), 1, is_image).string]
        /\ UNCHANGED <<reference_from_label, history, rule, ph_vars, master_vars, conversions>>

\* apply is called once the caller has stored its definitions
ApplyReferencedImage ==
    /\ call.op \in {"none", "store_definition"}
    /\ ApplyReferenced(TRUE)

ApplyReferencedLink ==
    /\ call.op \in {"none", "store_definition"}
    /\ ApplyReferenced(FALSE)

ReferencedNext == StoreDefinition \/ ApplyReferencedImage \/ ApplyReferencedLink

ReferencedSpec == ReferenceInit /\ [][ReferencedNext]_vars

(***************************************************************************)
(* C13: a referenced image or link whose label has no definition is left   *)
(* as it is                                                                *)
(***************************************************************************)
\* the form the rule just applied has matched at the start of the string
MatchedForm ==
    ReferencedMatchAt(call.string, 1, call.op = "ReferencedImageReplacement.apply")

\* its label or, when the label is absent or empty, its alt or link text
LabelLookedUp == LabelOf(MatchedForm)

\* the table the stores of the history leave
RECURSIVE TableAfter(_)
TableAfter(stores) ==
    IF stores = <<>> THEN NoReferences
    ELSE store_definition(TableAfter(SubSeq(stores, 1, Len(stores) - 1)),
                          stores[Len(stores)].label,
                          stores[Len(stores)].reference.attribute_specifications,
                          stores[Len(stores)].reference.uri,
                          stores[Len(stores)].reference.title)

\* C13: when a referenced-image or referenced-link rule matches a form
\* whose label (or, when the label is absent or empty, its alt text or link
\* text) has no entry in the reference table, the substitution returns the
\* matched text unchanged, no error propagates out of apply, and the
\* reference table is left unchanged.
C13_UnknownLabel ==
    /\ reference_from_label = TableAfter(history)
    /\ /\ call.op \in {"ReferencedImageReplacement.apply", "ReferencedLinkReplacement.apply"}
       /\ MatchedForm.found
       /\ StoresOf(LabelLookedUp) = {}
       => /\ call.raised = "none"
          /\ call.returned = call.string

(***************************************************************************)
(* build_attributes_sequence called on attribute specifications            *)
(***************************************************************************)
MaxSpecifications == 3

\* the forms of the example of the docstring, deletions, boolean attributes
SpecificationTokens ==
    {
     <<105, 100, 61, 120>>,                             \* id=x
     <<35, 121>>,                                       \* #y
     <<46, 97>>,                                        \* .a
     <<46, 98>>,                                        \* .b
     <<46, 61, 99>>,                                    \* .=c
     <<99, 108, 97, 115, 115, 61, 34, 100, 34>>,        \* class="d"
     <<110, 97, 109, 101, 61, 118, 97, 108, 117, 101>>, \* name=value
     <<45, 105, 100>>,                                  \* -id
     <<45, 99, 108, 97, 115, 115>>,                     \* -class
     <<99, 108, 97, 115, 115>>,                         \* class
     <<110, 97, 109, 101>>                              \* name
    }

\* ' '.join(tokens)
RECURSIVE JoinedBySpace(_)
JoinedBySpace(tokens) ==
    IF tokens = <<>> THEN <<>>
    ELSE IF Len(tokens) = 1 THEN Head(tokens)
    ELSE Head(tokens) \o <<32>> \o JoinedBySpace(Tail(tokens))

\* id=x #y .a .b name=value .=c class="d"
ExampleSpecifications ==
    <<105, 100, 61, 120, 32, 35, 121, 32, 46, 97, 32, 46, 98, 32, 110, 97, 109, 101, 61, 118, 97, 108, 117, 101, 32, 46, 61, 99, 32, 99, 108, 97, 115, 115, 61, 34, 100, 34>>

\*  id="y" class="a b c d" name="value"
ExampleSequence ==
    <<32, 105, 100, 61, 34, 121, 34, 32, 99, 108, 97, 115, 115, 61, 34, 97, 32, 98, 32, 99, 32, 100, 34, 32, 110, 97, 109, 101, 61, 34, 118, 97, 108, 117, 101, 34>>

AttributeSpecificationValues ==
    {JoinedBySpace(tokens) : tokens \in SeqsUpTo(SpecificationTokens, MaxSpecifications)}
        \cup {ExampleSpecifications}

AttributesInit ==
    /\ \E attribute_specifications \in AttributeSpecificationValues :
          call = [NoCall EXCEPT !.string = attribute_specifications]
    /\ reference_from_label = NoReferences
    /\ conversions = NoConversions
    /\ history = <<>>
    /\ rule = NewRule
    /\ master = IdleMaster
    /\ frames = <<>>
    /\ locals = NewLocals
    /\ pc = "idle"
    /\ error = None
    /\ output = NoOutput
    /\ ph_input = <<>>
    /\ ph_string = <<>>
    /\ ph_calls = <<>>
    /\ ph_raised = "none"

BuildAttributesSequence ==
    /\ call.op = "none"
    /\ call' = [call EXCEPT
                    !.op = "build_attributes_sequence",
                    !.raised = build_attributes_sequence(call.string, FALSE).raised,
                    !.returned = build_attributes_sequence(call.string, FALSE).string]
    /\ UNCHANGED <<rule, ph_vars, master_vars, reference_vars, conversions>>

AttributesNext == BuildAttributesSequence

AttributesSpec == AttributesInit /\ [][AttributesNext]_vars

(***************************************************************************)
(* C15: build_attributes_sequence folds the specifications left to right   *)
(***************************************************************************)
\* the specifications the pattern finds in the string given
Given == AttributeSpecificationsFrom(call.string, 1)

\* the positions of the specifications of a name that no later -name removes
Live(name) ==
    {i \in 1..Len(Given) :
        /\ Given[i].name = name
        /\ Given[i].kind = "value"
        /\ \A j \in i + 1..Len(Given) : ~(Given[j].kind = "omit" /\ Given[j].name = name)}

First(positions) == CHOOSE i \in positions : \A j \in positions : i <= j

Last(positions) == CHOOSE i \in positions : \A j \in positions : j <= i

\* the values given for class at the positions, in order, joined by spaces
\* (a boolean class counted as the value None, as the code formats it)
RECURSIVE ClassValues(_)
ClassValues(positions) ==
    IF positions = {} THEN <<>>
    ELSE LET i == First(positions)
         IN  IF positions = {i} THEN Formatted(Given[i].value)
             ELSE Formatted(Given[i].value) \o <<32>> \o ClassValues(positions \ {i})

\* the value the fold leaves for a name: for class every value in the order
\* met, for any other name the latest (none for a boolean attribute)
FoldedValue(name) ==
    IF name # ClassName THEN Given[Last(Live(name))].value
    ELSE IF \A i \in Live(name) : Given[i].value = NoString THEN NoString
    ELSE ClassValues(Live(name))

\* the names left, in the order of their first specification that counts
RECURSIVE FoldedSequence(_)
FoldedSequence(positions) ==
    IF positions = {} THEN <<>>
    ELSE LET i == First(positions)
             name == Given[i].name
         IN  (IF FoldedValue(name) = NoString
              THEN <<32>> \o name
              ELSE <<32>> \o name \o <<61, 34>> \o FoldedValue(name) \o <<34>>)
             \o FoldedSequence(positions \ Live(name))

\* C15: build_attributes_sequence folds the attribute specifications left
\* to right: for a name other than class the latest value replaces earlier
\* ones, class values are appended space-separated in encounter order,
\* -name removes the name, and each name appears at most once in the
\* output; id=x #y .a .b name=value .=c class="d" yields
\* id="y" class="a b c d" name="value".
C15_Fold ==
    call.op = "build_attributes_sequence" =>
        /\ call.raised = "none"
        /\ call.returned = FoldedSequence(UNION {Live(Given[i].name) : i \in 1..Len(Given)})
        /\ call.string = ExampleSpecifications => call.returned = ExampleSequence

(***************************************************************************)
(* An InlineAssortedDelimitersReplacement applied, and applied again to    *)
(* what it returned                                                        *)
(***************************************************************************)
MaxInlineLen == 5

\* the two delimiter characters, a letter, a space
InlineCodePoints == {42, 95, 97, 32}

InlineInit ==
    /\ \E string \in SeqsUpTo(InlineCodePoints, MaxInlineLen) :
          call = [NoCall EXCEPT !.string = string]
    /\ reference_from_label = NoReferences
    /\ conversions = NoConversions
    /\ history = <<>>
    /\ rule = NewRule
    /\ master = IdleMaster
    /\ frames = <<>>
    /\ locals = NewLocals
    /\ pc = "idle"
    /\ error = None
    /\ output = NoOutput
    /\ ph_input = <<>>
    /\ ph_string = <<>>
    /\ ph_calls = <<>>
    /\ ph_raised = "none"

InlineApply ==
    /\ call.op = "none"
    /\ call' = [call EXCEPT !.op = "apply",
                            !.returned = InlineAssortedDelimitersApply(call.string)]
    /\ history' = <<[string |-> call.string,
                     returned |-> InlineAssortedDelimitersApply(call.string)]>>
    /\ UNCHANGED <<reference_from_label, rule, ph_vars, master_vars, conversions>>

InlineApplyAgain ==
    /\ call.op = "apply"
    /\ call' = [call EXCEPT !.op = "apply again",
                            !.string = call.returned,
                            !.returned = InlineAssortedDelimitersApply(call.returned)]
    /\ history' = Append(history,
                      [string |-> call.returned,
                       returned |-> InlineAssortedDelimitersApply(call.returned)])
    /\ UNCHANGED <<reference_from_label, rule, ph_vars, master_vars, conversions>>

InlineNext == InlineApply \/ InlineApplyAgain

InlineSpec == InlineInit /\ [][InlineNext]_vars

(***************************************************************************)
(* C14: what apply of an inline-assorted-delimiters rule returns is a      *)
(* fixed point of the substitution pass                                    *)
(***************************************************************************)
\* C14: for an inline-assorted-delimiters rule, apply repeats the
\* substitution pass until a pass produces no change, so the string
\* returned is a fixed point of the pass; hence applying the same rule a
\* second time to its own output returns that output unchanged.
C14_FixedPoint ==
    /\ \A i \in 1..Len(history) :
          InlineAssortedDelimitersPassFrom(history[i].returned, 1) = history[i].returned
    /\ Len(history) = 2 =>
          /\ history[2].string = history[1].returned
          /\ history[2].returned = history[1].returned

\* *_a*_ : the first pass turns *_a* into <em>_a</em>, which leaves a pair of
\* underscores around a</em> for the second pass; apply returns
\* <em><i>a</em></i>, and returns it again when applied to it
C14_Witness ==
    /\ Len(history) = 2
    /\ history[1].string = <<42, 95, 97, 42, 95>>
    /\ history[1].returned =
           <<60, 101, 109, 62, 60, 105, 62, 97, 60, 47, 101, 109, 62, 60, 47, 105, 62>>
    /\ history[2].returned = history[1].returned

(***************************************************************************)
(* de_indent and compute_longest_common_prefix called by a caller          *)
(***************************************************************************)
MaxDeIndentLen == 6

MaxStrings == 3

\* a space, a tab, a letter, a line feed
DeIndentCodePoints == {32, 9, 97, 10}

\* the strings compute_longest_common_prefix is given: up to two code points
PrefixStrings == SeqsUpTo({32, 9, 97}, 2)

DeIndentInit ==
    /\ \E string \in SeqsUpTo(DeIndentCodePoints, MaxDeIndentLen) :
          call = [NoCall EXCEPT !.string = string]
    /\ reference_from_label = NoReferences
    /\ conversions = NoConversions
    /\ history = <<>>
    /\ rule = NewRule
    /\ master = IdleMaster
    /\ frames = <<>>
    /\ locals = NewLocals
    /\ pc = "idle"
    /\ error = None
    /\ output = NoOutput
    /\ ph_input = <<>>
    /\ ph_string = <<>>
    /\ ph_calls = <<>>
    /\ ph_raised = "none"

DeIndent ==
    /\ call.op = "none"
    /\ call' = [call EXCEPT !.op = "de_indent", !.returned = de_indent(call.string)]
    /\ UNCHANGED <<rule, ph_vars, master_vars, reference_vars, conversions>>

ComputeLongestCommonPrefix ==
    \E strings \in SeqsUpTo(PrefixStrings, MaxStrings) :
        /\ call.op = "none"
        /\ call.string = <<>>
        /\ call' = [call EXCEPT !.op = "compute_longest_common_prefix",
                                !.returned = compute_longest_common_prefix(strings)]
        /\ history' = <<[strings |-> strings]>>
        /\ UNCHANGED <<reference_from_label, rule, ph_vars, master_vars, conversions>>

DeIndentNext == DeIndent \/ ComputeLongestCommonPrefix

DeIndentSpec == DeIndentInit /\ [][DeIndentNext]_vars

(***************************************************************************)
(* C16: de_indent removes the longest common indentation of the non-empty  *)
(* lines                                                                   *)
(***************************************************************************)
\* the lines of a string: what lies between its line feeds
RECURSIVE LinesOf(_)
LinesOf(string) ==
    IF IndexFrom(string, 1, 10) = 0 THEN <<string>>
    ELSE <<SubSeq(string, 1, IndexFrom(string, 1, 10) - 1)>>
         \o LinesOf(SubSeq(string, IndexFrom(string, 1, 10) + 1, Len(string)))

RECURSIVE JoinedByLineFeed(_)
JoinedByLineFeed(lines) ==
    IF Len(lines) = 1 THEN Head(lines)
    ELSE Head(lines) \o <<10>> \o JoinedByLineFeed(Tail(lines))

WhitespaceOnly(line) == \A i \in 1..Len(line) : line[i] \in Whitespace

\* the lines, the last one emptied if it holds whitespace only
LinesKept(string) ==
    [k \in 1..Len(LinesOf(string)) |->
        IF k = Len(LinesOf(string)) /\ WhitespaceOnly(LinesOf(string)[k]) THEN <<>>
        ELSE LinesOf(string)[k]]

\* the strings of whitespace every non-empty line starts with
CommonIndentations(lines) ==
    {indentation \in SeqsUpTo(Whitespace \cap DeIndentCodePoints, MaxDeIndentLen) :
        \A k \in 1..Len(lines) : lines[k] # <<>> => StartsWith(lines[k], indentation)}

LongestOf(strings) ==
    CHOOSE string \in strings : \A other \in strings : Len(other) <= Len(string)

\* every non-empty line without the longest common indentation
DeIndented(lines) ==
    [k \in 1..Len(lines) |->
        IF lines[k] = <<>> THEN <<>>
        ELSE SubSeq(lines[k], Len(LongestOf(CommonIndentations(lines))) + 1,
                    Len(lines[k]))]

\* the strings given to compute_longest_common_prefix
Strings == history[1].strings

IsCommonPrefix(prefix) == \A i \in 1..Len(Strings) : StartsWith(Strings[i], prefix)

\* C16: de_indent first erases the whitespace of the last line if that
\* line is whitespace-only, then removes from every line the longest
\* common leading-whitespace prefix taken over all non-empty lines (a
\* whitespace-only line that is not the last line counts, an empty line
\* does not); compute_longest_common_prefix returns the longest string
\* that is a prefix of every string given.
C16_DeIndent ==
    /\ call.op = "de_indent" =>
            call.returned = JoinedByLineFeed(DeIndented(LinesKept(call.string)))
    /\ call.op = "compute_longest_common_prefix" =>
            /\ IsCommonPrefix(call.returned)
            /\ \A i \in 1..Len(Strings) :
                   \A n \in Len(call.returned) + 1..Len(Strings[i]) :
                       ~IsCommonPrefix(SubSeq(Strings[i], 1, n))

\* two spaces, a, a line of one space, an empty last line: the line of one
\* space counts and one space is removed from both
C16_Witness ==
    /\ call.op = "de_indent"
    /\ call.string = <<32, 32, 97, 10, 32, 10>>
    /\ call.returned = <<32, 97, 10, 10>>

(***************************************************************************)
(* extract_rules_and_content called by a caller                            *)
(***************************************************************************)
MaxDocumentLen == 8

\* a percent sign, a line feed, a letter
DocumentCodePoints == {PERCENT_SIGN, LINE_FEED, 97}

ExtractInit ==
    /\ \E cmd \in SeqsUpTo(DocumentCodePoints, MaxDocumentLen) :
          call = [NoCall EXCEPT !.string = cmd]
    /\ reference_from_label = NoReferences
    /\ conversions = NoConversions
    /\ history = <<>>
    /\ rule = NewRule
    /\ master = IdleMaster
    /\ frames = <<>>
    /\ locals = NewLocals
    /\ pc = "idle"
    /\ error = None
    /\ output = NoOutput
    /\ ph_input = <<>>
    /\ ph_string = <<>>
    /\ ph_calls = <<>>
    /\ ph_raised = "none"

ExtractRulesAndContent ==
    /\ call.op = "none"
    /\ call' = [call EXCEPT !.op = "extract_rules_and_content",
                            !.returned = extract_rules_and_content(call.string)]
    /\ UNCHANGED <<rule, ph_vars, master_vars, reference_vars, conversions>>

ExtractNext == ExtractRulesAndContent

ExtractSpec == ExtractInit /\ [][ExtractNext]_vars

(***************************************************************************)
(* C17: a document is split at its first delimiter line                    *)
(***************************************************************************)
\* three or more percent signs and nothing else
IsDelimiterLine(line) ==
    /\ Len(line) >= 3
    /\ \A i \in 1..Len(line) : line[i] = PERCENT_SIGN

\* The delimiter lines of a document: a line is what a line feed ends, so
\* what follows the last line feed is not one of them.
DelimiterLines(cmd) ==
    {k \in 1..Len(LinesOf(cmd)) - 1 : IsDelimiterLine(LinesOf(cmd)[k])}

FirstDelimiterLine(cmd) ==
    CHOOSE k \in DelimiterLines(cmd) : \A other \in DelimiterLines(cmd) : k <= other

\* the lines first to last, each ended by its line feed
RECURSIVE LinesEnded(_, _, _)
LinesEnded(lines, first, last) ==
    IF first > last THEN <<>>
    ELSE lines[first] \o <<LINE_FEED>> \o LinesEnded(lines, first + 1, last)

MaxListLen == 3

\* The strings of the list: up to two code points out of the marker, the
\* last code point of the run class and a letter; a run code point alone;
\* the letter C written as a placeholder.
ListStrings ==
    SeqsUpTo({MARKER, RUN_CODE_POINT_MAX, 97}, 2)
        \cup {<<57583>>, <<MARKER, 57411, MARKER>>}

ListInit ==
    /\ history = <<>>
    /\ ph_input = <<>>
    /\ ph_string = <<>>
    /\ ph_calls = <<>>
    /\ ph_raised = "none"
    /\ call = NoCall
    /\ reference_from_label = NoReferences
    /\ conversions = NoConversions
    /\ rule = NewRule
    /\ master = IdleMaster
    /\ frames = <<>>
    /\ locals = NewLocals
    /\ pc = "idle"
    /\ error = None
    /\ output = NoOutput

\* placeholder_master.protect(placeholder_master.replace_marker_occurrences(string))
\* for the next string of the list; ph_input is the join of the placeholders
ProtectNextString ==
    \E string \in ListStrings :
        /\ ph_raised = "none"
        /\ ph_calls = <<>>
        /\ Len(history) < MaxListLen
        /\ history' = Append(history, string)
        /\ ph_raised' = Bind(replace_marker_occurrences(string),
                             LAMBDA replaced : protect(replaced.string)).raised
        /\ ph_input' = ph_input
                \o Bind(replace_marker_occurrences(string),
                        LAMBDA replaced : protect(replaced.string)).string
        /\ UNCHANGED <<ph_string, ph_calls, reference_from_label, rule_vars, master_vars, conversions>>

\* placeholder_master.unprotect(''.join(placeholders))
UnprotectJoined ==
    /\ ph_raised = "none"
    /\ ph_calls = <<>>
    /\ ph_calls' = <<"unprotect">>
    /\ ph_raised' = unprotect(ph_input).raised
    /\ ph_string' = unprotect(ph_input).string
    /\ UNCHANGED <<ph_input, reference_vars, rule_vars, master_vars, conversions>>

ListNext == ProtectNextString \/ UnprotectJoined

ListSpec == ListInit /\ [][ListNext]_vars

(***************************************************************************)
(* C18: the placeholders of a list of strings, joined and unprotected,     *)
(* give the strings joined                                                 *)
(***************************************************************************)
\* C18: for every list of strings s1..sn, strings with the marker U+F8FF
\* and with code points of the run class included, unprotect of the
\* concatenation of protect(replace_marker_occurrences(si)), i = 1..n, is
\* the concatenation of s1..sn, and none of the calls raises.
C18_ListRoundTrip ==
    /\ ph_raised = "none"
    /\ ph_calls = <<"unprotect">> => ph_string = Flatten(history)

\* a marker, the last run code point and a marker; two markers; a
\* placeholder written out
C18_Witness ==
    /\ history = <<(<<MARKER, RUN_CODE_POINT_MAX>>), <<MARKER, MARKER>>,
                   <<MARKER, 57411, MARKER>>>>
    /\ ph_calls = <<"unprotect">>
    /\ ph_string = <<MARKER, RUN_CODE_POINT_MAX, MARKER, MARKER, MARKER, 57411, MARKER>>

(***************************************************************************)
(* Two conversions (cmd_to_html) side by side: each has a ReplacementMaster *)
(* object, which holds a ReferenceMaster object                            *)
(***************************************************************************)
MaxLines == 2

ConversionIds == {1, 2}

\* The fields ReplacementMaster.__init__ sets, with the locals of the first
\* call of legislate, given the ReferenceMaster object the instance holds.
\* inputs is what the conversion has been given so far.
ReplacementMasterWith(reference_master) ==
    [S |-> [opened_file_names |-> <<cmd_file_name>>,
            replacement_from_id |-> IdleMaster.replacement_from_id,
            root_replacement_id |-> IdleMaster.root_replacement_id,
            replacement_queue |-> IdleMaster.replacement_queue,
            rules_file_names |-> <<"STANDARD_RULES">>,
            class_name |-> NewLocals.class_name,
            replacement |-> NewLocals.replacement,
            attribute_name |-> NewLocals.attribute_name,
            attribute_value |-> NewLocals.attribute_value,
            substitution |-> NewLocals.substitution,
            error |-> None],
     reference_master |-> reference_master,
     pc |-> "legislate",
     html |-> NoOutput,
     loaded |-> [raised |-> "none", returned |-> <<>>],
     inputs |-> <<>>]

\* one ReferenceMaster object held by every instance, as an attribute of the
\* class would be
ReplacementMasterWithClassAttribute(instance) == ReplacementMasterWith(1)

\* ReplacementMaster.__init__: self._reference_master = ReferenceMaster() is
\* an object of the instance's own (the objects are numbered as the
\* instances are)
ReplacementMasterInit(instance) == ReplacementMasterWith(instance)

Input(kind, name, value) == [kind |-> kind, name |-> name, value |-> value]

\* the lines of the rule documents of the two conversions
ConversionLines ==
    {Input("blank", None, None),
     Input("class", "PlaceholderProtectionReplacement", "r"),
     Input("attribute", "queue_position", <<<<"ROOT">>>>),
     Input("eof", None, None)}

\* the reference definitions and the labels looked up in the main contents
ConversionLabels == {<<65>>, <<98>>}

\* what one line of the rule document does to the state of legislate
LineOutcome(S, line) ==
    CASE line.kind = "blank" -> CommitIfOpen(StageIfPending(S))
      [] line.kind = "class" ->
            process_class_declaration_line(
                CommitIfOpen(StageIfPending(S)), line.name, line.value)
      [] line.kind = "attribute" ->
            process_attribute_declaration_line(StageIfPending(S), line.name, line.value)
      [] line.kind = "eof" -> ReturnFromLegislate(CommitIfOpen(StageIfPending(S)))

LegislatedLine(self, line) ==
    [self EXCEPT
        !.S = LineOutcome(@, line),
        !.pc = IF Exited(LineOutcome(self.S, line)) THEN "exited"
               ELSE IF LineOutcome(self.S, line).rules_file_names = <<>>
                   THEN "legislated"
               ELSE "legislate",
        !.inputs = Append(@, line)]

\* a reference definition of the main content is stored (the rule of class
\* ReferenceDefinitionReplacement calls store_definition)
Stored(reference_master, input) ==
    store_definition(reference_master, input.name,
        input.value.attribute_specifications, input.value.uri, input.value.title)

\* the queue is run on the main content and a label is looked up (the
\* rules of the referenced images and links call load_definition)
Executed(self, reference_master, input) ==
    [self EXCEPT
        !.pc = "executed",
        !.html = [raised |-> execute(self.S, input.value).raised,
                  main_content |-> input.value,
                  html |-> execute(self.S, input.value).string,
                  log |-> execute(self.S, input.value).log],
        !.loaded = load_definition(reference_master, input.name),
        !.inputs = Append(@, input)]

LinesGiven(self) ==
    Cardinality({k \in 1..Len(self.inputs) : self.inputs[k].kind # "eof"})

ConversionsInit ==
    /\ conversions =
          [replacement_masters |-> [i \in ConversionIds |-> ReplacementMasterInit(i)],
           reference_masters |-> [id \in ConversionIds |-> NoReferences]]
    /\ reference_from_label = NoReferences
    /\ history = <<>>
    /\ call = NoCall
    /\ rule = NewRule
    /\ master = IdleMaster
    /\ frames = <<>>
    /\ locals = NewLocals
    /\ pc = "idle"
    /\ error = None
    /\ output = NoOutput
    /\ ph_input = <<>>
    /\ ph_string = <<>>
    /\ ph_calls = <<>>
    /\ ph_raised = "none"

\* conversion i reads one line of its rule document
LegislateLine(i) ==
    /\ conversions.replacement_masters[i].pc = "legislate"
    /\ \E line \in ConversionLines :
          /\ line.kind # "eof" => LinesGiven(conversions.replacement_masters[i]) < MaxLines
          /\ conversions' =
                 [conversions EXCEPT !.replacement_masters[i] = LegislatedLine(@, line)]
    /\ UNCHANGED <<ph_vars, rule_vars, master_vars, reference_vars>>

\* conversion i, executing, stores a reference definition of its main content
StoreDefinitionOf(i) ==
    /\ conversions.replacement_masters[i].pc = "legislated"
    /\ \E label \in ConversionLabels, reference \in References :
          conversions' =
              [conversions EXCEPT
                  !.reference_masters[conversions.replacement_masters[i].reference_master] =
                      Stored(@, Input("store", label, reference)),
                  !.replacement_masters[i] =
                      [@ EXCEPT !.pc = "executing",
                                !.inputs = Append(@, Input("store", label, reference))]]
    /\ UNCHANGED <<ph_vars, rule_vars, master_vars, reference_vars>>

\* conversion i runs its queue and looks a label up
ExecuteOf(i) ==
    /\ conversions.replacement_masters[i].pc = "executing"
    /\ \E label \in {<<97>>, <<98>>} :
          conversions' =
              [conversions EXCEPT
                  !.replacement_masters[i] =
                      Executed(@,
                          conversions.reference_masters[
                              conversions.replacement_masters[i].reference_master],
                          Input("execute", label, <<40, 97, 41>>))]
    /\ UNCHANGED <<ph_vars, rule_vars, master_vars, reference_vars>>

ConversionsNext ==
    \E i \in ConversionIds : LegislateLine(i) \/ StoreDefinitionOf(i) \/ ExecuteOf(i)

ConversionsSpec == ConversionsInit /\ [][ConversionsNext]_vars

(***************************************************************************)
(* C20: two conversions do not affect each other                           *)
(***************************************************************************)
\* a conversion that runs alone: its ReplacementMaster and its ReferenceMaster
Alone(replacement_master, reference_master) ==
    [replacement_master |-> replacement_master, reference_master |-> reference_master]

AloneStep(alone, input) ==
    CASE input.kind = "store" ->
            Alone([alone.replacement_master EXCEPT
                      !.pc = "executing", !.inputs = Append(@, input)],
                  Stored(alone.reference_master, input))
      [] input.kind = "execute" ->
            Alone(Executed(alone.replacement_master, alone.reference_master, input),
                  alone.reference_master)
      [] OTHER ->
            Alone(LegislatedLine(alone.replacement_master, input), alone.reference_master)

\* the conversion that was given the inputs, one after the other, alone
RECURSIVE RunAlone(_)
RunAlone(inputs) ==
    IF inputs = <<>> THEN Alone(ReplacementMasterWith(0), NoReferences)
    ELSE AloneStep(RunAlone(SubSeq(inputs, 1, Len(inputs) - 1)), inputs[Len(inputs)])

ReferenceMasterOf(i) ==
    conversions.reference_masters[conversions.replacement_masters[i].reference_master]

\* the registry, the queue, the state of legislate, the reference table
\* and the results of conversion i are those of the conversion run alone
SameAsAlone(i, alone) ==
    /\ conversions.replacement_masters[i].S = alone.replacement_master.S
    /\ conversions.replacement_masters[i].pc = alone.replacement_master.pc
    /\ conversions.replacement_masters[i].html = alone.replacement_master.html
    /\ conversions.replacement_masters[i].loaded = alone.replacement_master.loaded
    /\ ReferenceMasterOf(i) = alone.reference_master

C20_AsAlone ==
    \A i \in ConversionIds :
        SameAsAlone(i, RunAlone(conversions.replacement_masters[i].inputs))

\* a step of one conversion leaves the objects of the other as they are
C20_OtherUnaffected ==
    [][\A i \in ConversionIds :
          conversions.replacement_masters[i].inputs
                  = conversions'.replacement_masters[i].inputs
              => /\ conversions'.replacement_masters[i] = conversions.replacement_masters[i]
                 /\ conversions'.reference_masters[
                        conversions'.replacement_masters[i].reference_master]
                        = ReferenceMasterOf(i)]_vars

\* C20: two conversions run as independent instances share no mutable
\* state: under any interleaving of their compile and execute steps, the
\* rule registry, the rule queue and the reference table of one are
\* unaffected by the other, and each result equals the result of running
\* that conversion alone.
C20_Independent == []C20_AsAlone /\ C20_OtherUnaffected

\* Both conversions have run to their end, the second one between the
\* steps of the first: the first registered a root rule and stored a
\* definition for A, the second stored nothing for A and finds nothing.
C20_Witness ==
    /\ conversions.replacement_masters[1].pc = "executed"
    /\ conversions.replacement_masters[2].pc = "executed"
    /\ conversions.replacement_masters[1].S.replacement_queue # <<>>
    /\ conversions.replacement_masters[2].S.replacement_queue = <<>>
    /\ conversions.replacement_masters[1].loaded.raised = "none"
    /\ conversions.replacement_masters[2].loaded.raised = "UnrecognisedLabelException"
    /\ conversions.replacement_masters[1].html.html
            # conversions.replacement_masters[2].html.html

(***************************************************************************)
(* An ordinary dictionary rule built, committed and applied by a caller    *)
(***************************************************************************)
\* "a", "b", "ab": one pattern is the beginning of another
DictionaryPatterns == {<<97>>, <<98>>, <<97, 98>>}

\* "b", "a"
DictionarySubstitutes == {<<98>>, <<97>>}

DictionaryInit ==
    /\ rule = NewRule
    /\ call = NoCall
    /\ reference_from_label = NoReferences
    /\ conversions = NoConversions
    /\ history = <<>>
    /\ ph_input = <<>>
    /\ ph_string = <<>>
    /\ ph_calls = <<>>
    /\ ph_raised = "none"
    /\ master = IdleMaster
    /\ frames = <<>>
    /\ locals = NewLocals
    /\ pc = "idle"
    /\ error = None
    /\ output = NoOutput

DictionaryAddSubstitution ==
    \E pattern \in DictionaryPatterns, substitute \in DictionarySubstitutes :
        /\ ~rule.is_committed
        /\ \/ Len(rule.substitute_from_pattern) < MaxSubstitutions
           \/ \E i \in 1..Len(rule.substitute_from_pattern) :
                  rule.substitute_from_pattern[i][1] = pattern
        /\ CallSetter("add_substitution", add_substitution(rule, pattern, substitute))

DictionarySetApplyMode ==
    \E value \in BOOLEAN :
        /\ ~rule.is_committed
        /\ CallSetter("apply_substitutions_simultaneously",
                      set_apply_substitutions_simultaneously(rule, value))

DictionarySetConcludingReplacements ==
    \E value \in {<<>>, <<"p">>} :
        /\ ~rule.is_committed
        /\ CallSetter("concluding_replacements", set_concluding_replacements(rule, value))

DictionaryCommit ==
    /\ ~rule.is_committed
    /\ rule' = commit_replacement(rule)
    /\ call' = [NoCall EXCEPT !.op = "commit"]
    /\ UNCHANGED <<ph_vars, master_vars, reference_vars, conversions>>

DictionaryApply ==
    \E string \in SeqsUpTo({97, 98}, MaxLen) :
        /\ rule.is_committed
        /\ call' = [op |-> "apply",
                    raised |-> apply(Objects(rule), "d", string, NoFlagNames, 0).raised,
                    string |-> string,
                    enabled_flag_names |-> NoFlagNames,
                    returned |-> apply(Objects(rule), "d", string, NoFlagNames, 0).string,
                    log |-> apply(Objects(rule), "d", string, NoFlagNames, 0).log]
        /\ UNCHANGED <<rule, ph_vars, master_vars, reference_vars, conversions>>

DictionaryNext ==
    \/ DictionaryAddSubstitution
    \/ DictionarySetApplyMode
    \/ DictionarySetConcludingReplacements
    \/ DictionaryCommit
    \/ DictionaryApply

DictionarySpec == DictionaryInit /\ [][DictionaryNext]_vars

(***************************************************************************)
(* C21: simultaneous mode replaces in one pass, whatever the order of      *)
(* declaration                                                             *)
(***************************************************************************)
Orders(n) ==
    {f \in [1..n -> 1..n] : \A i, j \in 1..n : f[i] = f[j] => i = j}

\* the dictionary with its pairs declared in another order
Reordered(dict, f) == [i \in 1..Len(dict) |-> dict[f[i]]]

\* the rule gives the same result whatever the order of declaration was
SameInEveryOrder ==
    \A f \in Orders(Len(rule.substitute_from_pattern)) :
        apply(Objects([rule EXCEPT !.substitute_from_pattern = Reordered(@, f)]),
              "d", call.string, NoFlagNames, 0).string = call.returned

\* the pairs whose pattern matches at index i
PairsAt(dict, string, i) == {k \in 1..Len(dict) : StartsWithAt(string, i, dict[k][1])}

\* One pass over the string: a match is replaced by its substitute and the
\* pass goes on behind the match, never in the substitute. Where several
\* patterns match, any of them may be the one replaced.
RECURSIVE OnePasses(_, _, _)
OnePasses(dict, string, i) ==
    IF i > Len(string) THEN {<<>>}
    ELSE IF PairsAt(dict, string, i) = {}
        THEN {<<string[i]>> \o rest : rest \in OnePasses(dict, string, i + 1)}
    ELSE UNION {{dict[k][2] \o rest :
                    rest \in OnePasses(dict, string, i + Len(dict[k][1]))} :
                k \in PairsAt(dict, string, i)}

IsSimultaneousApply ==
    /\ call.op = "apply"
    /\ rule.apply_substitutions_simultaneously
    /\ rule.concluding_replacements = <<>>

\* no pattern of the dictionary is the beginning of another
NoPatternBeginsAnother ==
    \A k, l \in 1..Len(rule.substitute_from_pattern) :
        k # l => ~StartsWithAt(rule.substitute_from_pattern[l][1], 1,
                               rule.substitute_from_pattern[k][1])

\* C21 as claimed: in simultaneous mode every match is replaced
\* independently in a single pass (text introduced by a substitute is never
\* matched again), and the result does not depend on the order in which
\* the pattern/substitute pairs were declared.
C21_OrderIndependent ==
    IsSimultaneousApply =>
        /\ call.raised = "none"
        /\ call.returned \in OnePasses(rule.substitute_from_pattern, call.string, 1)
        /\ SameInEveryOrder

\* C21 amended: in simultaneous mode every match is replaced in a single
\* pass (text introduced by a substitute is never matched again); where
\* several patterns match at one place the pair declared first is taken,
\* so the result does not depend on the order of declaration when no
\* pattern is the beginning of another.
C21_OrderIndependentWithoutPrefixes ==
    IsSimultaneousApply =>
        /\ call.raised = "none"
        /\ call.returned \in OnePasses(rule.substitute_from_pattern, call.string, 1)
        /\ \A i \in 1..Len(call.string) :
               PairsAt(rule.substitute_from_pattern, call.string, i) # {}
                   => \A k \in PairsAt(rule.substitute_from_pattern, call.string, i) :
                          FirstHit(rule.substitute_from_pattern, call.string, i) <= k
        /\ NoPatternBeginsAnother => SameInEveryOrder

\* a becomes b and b becomes a: in "ab" each is replaced once, the b that
\* replaced a is not replaced again
C21_Witness ==
    /\ IsSimultaneousApply
    /\ rule.substitute_from_pattern = <<(<<(<<97>>), <<98>>>>), <<(<<98>>), <<97>>>>>>
    /\ call.string = <<97, 98>>
    /\ call.returned = <<98, 97>>

(***************************************************************************)
(* C22: the concluding replacements of a dictionary rule are applied to    *)
(* the substitute values only                                              *)
(***************************************************************************)
\* a substitute value passed through the concluding replacements of the rule
Concluded(substitute) ==
    ApplyEach(Objects(rule), rule.concluding_replacements, substitute, NoFlagNames, 1).string

\* the dictionary of the rule with every substitute value so replaced
ConcludedDictionary ==
    [k \in 1..Len(rule.substitute_from_pattern) |->
        <<rule.substitute_from_pattern[k][1],
          Concluded(rule.substitute_from_pattern[k][2])>>]

\* C22: for an ordinary dictionary rule in either apply mode (SIMULTANEOUS
\* or SEQUENTIAL) the concluding replacements of the rule are applied to
\* each substitute value that replaces a match; text outside the matches,
\* and a text in which nothing matched, is not passed through the
\* concluding replacements.
C22_ConcludingOnSubstitutes ==
    call.op = "apply" =>
        /\ call.raised = "none"
        /\ IF rule.apply_substitutions_simultaneously
           THEN call.returned \in OnePasses(ConcludedDictionary, call.string, 1)
           ELSE call.returned = SequentialReplace(ConcludedDictionary, call.string)

(***************************************************************************)
(* An extensible-fence rule applied by a caller                            *)
(***************************************************************************)
MaxFenceLen == 7

\* a backtick
FENCE_CHARACTER == 96

\* the tag name c
FenceTagName == <<99>>

FenceInit ==
    /\ \E string \in SeqsUpTo({FENCE_CHARACTER, 97}, MaxFenceLen) :
          call = [NoCall EXCEPT !.string = string]
    /\ reference_from_label = NoReferences
    /\ conversions = NoConversions
    /\ history = <<>>
    /\ rule = NewRule
    /\ master = IdleMaster
    /\ frames = <<>>
    /\ locals = NewLocals
    /\ pc = "idle"
    /\ error = None
    /\ output = NoOutput
    /\ ph_input = <<>>
    /\ ph_string = <<>>
    /\ ph_calls = <<>>
    /\ ph_raised = "none"

\* apply of a committed rule whose extensible delimiter is the backtick,
\* repeated min_length times or more; history keeps the matches
ApplyExtensibleFence ==
    \E min_length \in 1..2 :
        /\ call.op = "none"
        /\ call' = [call EXCEPT
                        !.op = "apply",
                        !.returned = ExtensibleFenceApply(call.string, FENCE_CHARACTER,
                                                          min_length, FenceTagName)]
        /\ history' = <<[min_length |-> min_length,
                         matches |-> FenceMatchesFrom(call.string, 1, FENCE_CHARACTER,
                                                      min_length)]>>
        /\ UNCHANGED <<reference_from_label, rule, ph_vars, master_vars, conversions>>

FenceNext == ApplyExtensibleFence

FenceSpec == FenceInit /\ [][FenceNext]_vars

(***************************************************************************)
(* C23: the closing delimiter of a fence is as long as its opening         *)
(* delimiter                                                               *)
(***************************************************************************)
FenceMatches == history[1].matches

RECURSIVE DelimiterLengths(_)
DelimiterLengths(matches) ==
    IF matches = <<>> THEN 0 ELSE Head(matches).k + DelimiterLengths(Tail(matches))

IsFenceCharacterAt(j) ==
    j >= 1 /\ j <= Len(call.string) /\ call.string[j] = FENCE_CHARACTER

\* the k characters at index j are a run: no such character before or after
IsRunOf(j, k) ==
    /\ RepeatedAt(call.string, j, FENCE_CHARACTER, k)
    /\ ~IsFenceCharacterAt(j - 1)
    /\ ~IsFenceCharacterAt(j + k)

TwoPhaseExceptions == {"CommittedMutateException", "UncommittedApplyException"}

\* the rule lists itself among the rules it applies
ListsItself(id) ==
    \/ id \in Range(Registry[id].replacements)
    \/ id \in Range(Registry[id].content_replacements)
    \/ id \in Range(Registry[id].concluding_replacements)

C24_NoTwoPhaseException ==
    /\ error \notin TwoPhaseExceptions
    /\ output.raised \notin TwoPhaseExceptions
    /\ Open # NoReplacement => ~Open.is_committed
    /\ \A id \in DOMAIN Registry : Registry[id].is_committed

\* the queue holds a delimiter rule that lists itself for its content, and
\* execute has applied it to "(a)", the rule to the content again
C24_Witness ==
    /\ pc = "executed"
    /\ output.raised = "none"
    /\ output.main_content = <<40, 97, 41>>
    /\ \E id \in Range(Queue) :
           /\ Registry[id].class_name = "FixedDelimitersReplacement"
           /\ ListsItself(id)
           /\ Cardinality({i \in 1..Len(output.log) : output.log[i] = id}) > 1

(***************************************************************************)
(* A rule with a gating flag applied at the sites of the engine            *)
(***************************************************************************)
\* The rule g (a --> b) carries the flags; each other rule of the registry
\* is a site that applies g: the sequence q through its list, the
\* dictionary d (c --> a) through its concluding replacements, in either
\* apply mode, the delimiter rule f through its content replacements. The
\* queue holds the one rule the run is about: g itself (the site is execute)
\* or one of the others.
MaxGatingLen == 3

GatingFlagNames == {None, "F"}

Sites == {"g", "q", "d", "f"}

Committed(replacement) == commit_replacement(replacement)

GatedRule(positive_flag_name, negative_flag_name) ==
    Committed(
        set_negative_flag_name(
            set_positive_flag_name(
                add_substitution(
                    NewReplacement("OrdinaryDictionaryReplacement", "g"),
                    <<97>>, <<98>>).self,
                positive_flag_name).self,
            negative_flag_name).self)

GatingRegistry(positive_flag_name, negative_flag_name, simultaneously) ==
    [g |-> GatedRule(positive_flag_name, negative_flag_name),
     q |-> Committed(
               set_replacements(NewReplacement("ReplacementSequence", "q"),
                                <<"g">>).self),
     d |-> Committed(
               set_concluding_replacements(
                   set_apply_substitutions_simultaneously(
                       add_substitution(
                           NewReplacement("OrdinaryDictionaryReplacement", "d"),
                           <<99>>, <<97>>).self,
                       simultaneously).self,
                   <<"g">>).self),
     f |-> Committed(
               set_content_replacements(
                   set_closing_delimiter(
                       set_opening_delimiter(
                           set_syntax_type_is_block(
                               NewReplacement("FixedDelimitersReplacement", "f"),
                               "False").self,
                           <<40>>).self,
                       <<41>>).self,
                   <<"g">>).self)]

GatingInit ==
    /\ \E positive_flag_name \in GatingFlagNames, negative_flag_name \in GatingFlagNames,
          simultaneously \in BOOLEAN, site \in Sites :
           master = [IdleMaster EXCEPT
                        !.replacement_from_id =
                            GatingRegistry(positive_flag_name, negative_flag_name,
                                           simultaneously),
                        !.replacement_queue = <<site>>]
    /\ pc = "legislated"
    /\ frames = <<>>
    /\ locals = NewLocals
    /\ error = None
    /\ output = NoOutput
    /\ rule = NewRule
    /\ call = NoCall
    /\ reference_from_label = NoReferences
    /\ conversions = NoConversions
    /\ history = <<>>
    /\ ph_input = <<>>
    /\ ph_string = <<>>
    /\ ph_calls = <<>>
    /\ ph_raised = "none"

\* html = replacement_master.execute(main_content)
GatingExecute ==
    \E main_content \in SeqsUpTo({97, 99, 40, 41}, MaxGatingLen) :
        /\ pc = "legislated"
        /\ pc' = "executed"
        /\ output' = [raised |-> execute(master, main_content).raised,
                      main_content |-> main_content,
                      html |-> execute(master, main_content).string,
                      log |-> execute(master, main_content).log]
        /\ UNCHANGED <<master, frames, locals, error, ph_vars, rule_vars,
                       reference_vars, conversions>>

GatingNext == GatingExecute

GatingSpec == GatingInit /\ [][GatingNext]_vars

(***************************************************************************)
(* C25: a rule with a positive flag fires only where the flag is enabled;  *)
(* at a site that supplies no set of enabled flags (execute, a sequence    *)
(* applying its list, a dictionary applying its concluding replacements)   *)
(* apply returns the text unchanged.                                       *)
(***************************************************************************)
Site == Queue[1]

\* the sites that call apply(string), with no set of enabled flag names
SitesWithoutSet == {"g", "q", "d"}

\* _apply of the rule g ran
Fired == "g" \in Range(output.log)

C25_NoSetNoFire ==
    (/\ pc = "executed"
     /\ Site \in SitesWithoutSet
     /\ Registry["g"].positive_flag_name # None)
        => ~Fired

\* the master with the flags of g taken away
WithoutFlags ==
    [master EXCEPT !.replacement_from_id["g"] =
        [@ EXCEPT !.positive_flag_name = None, !.negative_flag_name = None]]

(***************************************************************************)
(* C25 as the code has it: at a site that supplies no set of enabled flags *)
(* the flags of a rule are not asked, the rule is applied as a rule        *)
(* without flags is; at a site that supplies a set (a delimiter rule       *)
(* applying its content replacements, here with no flag enabled) a rule    *)
(* with a positive flag is not applied and one without is.                 *)
(***************************************************************************)
C25_NoSetNoGating ==
    pc = "executed" =>
        /\ Site \in SitesWithoutSet =>
               /\ output.raised = "none"
               /\ output.html = execute(WithoutFlags, output.main_content).string
               /\ output.log = execute(WithoutFlags, output.main_content).log
               /\ Site = "g" => Fired
               /\ (Site = "q" /\ output.main_content # <<>>) => Fired
        /\ Site \notin SitesWithoutSet =>
               /\ Registry["g"].positive_flag_name # None => ~Fired
               /\ (/\ Registry["g"].positive_flag_name = None
                   /\ output.main_content = <<40, 97, 41>>)
                      => (Fired /\ output.html = <<98>>)

\* the sequence has applied the rule with the positive flag F to "a"
C25_Witness ==
    /\ pc = "executed"
    /\ Site = "q"
    /\ Registry["g"].positive_flag_name = "F"
    /\ output.main_content = <<97>>
    /\ output.html = <<98>>
    /\ output.log = <<"g", "q">>

(***************************************************************************)
(* C26: cycle detection consults the chain of the files that are open:     *)
(* once the compilation of an included file has ended the file is no       *)
(* longer on the chain, and a later inclusion of it (from the document     *)
(* that included it before, or from a sibling) is not reported as a        *)
(* recursive inclusion.                                                    *)
(***************************************************************************)
C26_OnlyOpenChain ==
    [][(pc = "legislate" /\ ExitsWith("recursive inclusion"))
           => \E file_name \in Files : SameFile(file_name, Included)]_vars

(***************************************************************************)
(* Rule documents of queue positions: rules of one class, declared with    *)
(* the ids a class declaration accepts, placed in the queue by ROOT,       *)
(* BEFORE #id and AFTER #id                                                *)
(***************************************************************************)
QueueIds == {id \in {"r", "h1", "x-y"} : IsId(IdText(id))}

QueuePositionValues ==
    {<<<<"ROOT">>>>}
        \cup {<<<<queue_position_type, id>>>> :
                 queue_position_type \in {"BEFORE", "AFTER"}, id \in QueueIds}

QueueClassDeclarationLine ==
    \E id_ \in QueueIds :
        /\ pc = "legislate"
        /\ Line(process_class_declaration_line(
                    CommitIfOpen(StageIfPending(Legislating)),
                    "PlaceholderProtectionReplacement", id_))

QueuePositionDeclarationLine ==
    \E partial_attribute_value \in QueuePositionValues :
        /\ pc = "legislate"
        /\ Line(process_attribute_declaration_line(
                    StageIfPending(Legislating),
                    "queue_position", partial_attribute_value))

QueuePositionNext ==
    \/ WhitespaceOnlyLine
    \/ QueueClassDeclarationLine
    \/ QueuePositionDeclarationLine
    \/ EndOfFile

QueuePositionSpec == MasterInit /\ [][QueuePositionNext]_vars

(***************************************************************************)
(* C27: for every id a class declaration accepts, once the rule with that  *)
(* id is committed and in the queue, a later rule's declaration            *)
(* queue_position: BEFORE #id or AFTER #id is accepted (no fatal error     *)
(* of the declaration) and the rule is put next to it on commit.           *)
(***************************************************************************)
ReferenceDeclared ==
    /\ Stages("queue_position")
    /\ Len(locals.attribute_value) = 1
    /\ locals.attribute_value[1][1] \in {"BEFORE", "AFTER"}
    /\ IsId(IdText(PendingReference))
    /\ PendingReference # Open.id_
    /\ PendingReference \in DOMAIN Registry
    /\ PendingReference \in Range(Queue)

C27_ReferenceAccepted ==
    [][ReferenceDeclared =>
        /\ ~ExitsWith("invalid value")
        /\ ~ExitsWith("undefined replacement")
        /\ ~ExitsWith("replacement not in queue")
        /\ Commits =>
               \E p \in 1..Len(Queue) :
                   /\ Queue[p] = PendingReference
                   /\ InsertedAt(Queue,
                                 IF locals.attribute_value[1][1] = "BEFORE"
                                 THEN p ELSE p + 1,
                                 Open.id_, master'.replacement_queue)]_vars

(***************************************************************************)
(* The compiler on rule documents of at most MaxRules rules                *)
(***************************************************************************)
MaxRules == 2

\* the rules declared so far: those committed and the open one
RulesDeclared ==
    Cardinality(DOMAIN Registry \cup (IF Open = NoReplacement THEN {} ELSE {Open.id_}))

CommitNext ==
    \/ RulesDeclared <= MaxRules /\ WhitespaceOnlyLine
    \/ RulesDeclared <= MaxRules /\ CommentLine
    \/ RulesDeclared <= MaxRules /\ RulesInclusionLine
    \/ RulesDeclared <= MaxRules /\ ClassDeclarationLine
    \/ RulesDeclared <= MaxRules /\ AttributeDeclarationLine
    \/ RulesDeclared <= MaxRules /\ SubstitutionDeclarationLine
    \/ RulesDeclared <= MaxRules /\ ContinuationLine
    \/ RulesDeclared <= MaxRules /\ InvalidLine
    \/ RulesDeclared <= MaxRules /\ EndOfFile
    \/ RulesDeclared <= MaxRules /\ Execute

CommitSpec == MasterInit /\ [][CommitNext]_vars

(***************************************************************************)
(* C28: a rule opened by a class declaration is committed exactly once, at *)
(* the first following blank line, inclusion line, class declaration or    *)
(* end of the document, and only after the pending attribute or            *)
(* substitution declaration (with its continuation lines) has been staged  *)
(* onto it, unless a fatal error ends the compilation first; a comment     *)
(* line stages nothing and commits nothing.                                *)
(***************************************************************************)
\* the errors of stage and of commit
StageOrCommitErrors ==
    {"invalid value", "invalid specification", "undefined replacement",
     "replacement not in queue", "self-referential queue_position",
     "root replacement already declared", "class does not allow substitutions",
     "missing attribute"}

\* the ids a pending list of rules names
PendingIds == [i \in 1..Len(locals.attribute_value) |-> locals.attribute_value[i][2]]

\* the rule committed by the step is the open rule with the pending
\* declaration staged onto it
PendingStaged ==
    /\ CommittedRule.is_committed
    /\ CommittedRule.class_name = Open.class_name
    /\ locals.substitution = NoValue
    /\ CASE locals.attribute_name = None -> CommittedRule = commit_replacement(Open)
         [] locals.attribute_name = "queue_position" ->
                /\ CommittedRule.queue_position_type = locals.attribute_value[1][1]
                /\ CommittedRule.queue_position_type # "ROOT"
                       => CommittedRule.queue_reference_replacement = PendingReference
         [] locals.attribute_name = "replacements" ->
                CommittedRule.replacements =
                    IF locals.attribute_value = <<<<"NONE">>>> THEN Open.replacements
                    ELSE PendingIds
         [] locals.attribute_name = "content_replacements" ->
                CommittedRule.content_replacements = PendingIds
         [] locals.attribute_name = "concluding_replacements" ->
                CommittedRule.concluding_replacements = PendingIds
         [] locals.attribute_name = "syntax_type" ->
                CommittedRule.syntax_type_is_block = "False"
         [] locals.attribute_name = "opening_delimiter" ->
                CommittedRule.opening_delimiter = <<40>>
         [] locals.attribute_name = "closing_delimiter" ->
                CommittedRule.closing_delimiter = <<41>>

\* the rule that was open is open no more
Closed == locals'.replacement = NoReplacement \/ locals'.replacement.id_ # Open.id_

\* the open rule is open still, nothing has been committed
StillOpen ==
    /\ master' = master
    /\ locals'.replacement.id_ = Open.id_
    /\ ~locals'.replacement.is_committed
    /\ locals'.class_name = locals.class_name

C28_CommitsAtLine ==
    [][(/\ Open # NoReplacement
        /\ \/ WhitespaceOnlyLine
           \/ RulesInclusionLine
           \/ ClassDeclarationLine
           \/ EndOfFile)
           => \/ Commits /\ PendingStaged /\ (pc' = "legislate" => Closed)
              \/ /\ pc' = "exited"
                 /\ error' \in StageOrCommitErrors
                 /\ master' = master]_vars

C28_OpenUntilThen ==
    [][(/\ Open # NoReplacement
        /\ \/ AttributeDeclarationLine
           \/ SubstitutionDeclarationLine
           \/ ContinuationLine
           \/ CommentLine)
           => \/ pc' = "legislate" /\ StillOpen
              \/ pc' = "exited" /\ master' = master]_vars

\* what a comment line leaves behind is the state it found
C28_CommentLeaves ==
    pc = "legislate" =>
        /\ ~Exited(Legislating)
        /\ Legislating.replacement = Open
        /\ Legislating.attribute_name = locals.attribute_name
        /\ Legislating.attribute_value = locals.attribute_value
        /\ Legislating.substitution = locals.substitution
        /\ Legislating.replacement_from_id = Registry
        /\ Legislating.replacement_queue = Queue

\* committed once: a rule of the registry is committed, stays as it is, and
\* is not the open rule
C28_Once ==
    [][\A id \in DOMAIN Registry :
           /\ id \in DOMAIN master'.replacement_from_id
           /\ master'.replacement_from_id[id] = Registry[id]
           /\ Registry[id].is_committed
           /\ locals'.replacement.id_ # id]_vars

C28_CommittedOnce ==
    /\ C28_CommitsAtLine
    /\ C28_OpenUntilThen
    /\ []C28_CommentLeaves
    /\ C28_Once

\* the sequence t was committed with a list declared on two lines (itself,
\* and on a continuation line the rule r)
C28_Witness ==
    /\ pc = "legislate"
    /\ DOMAIN Registry = {"r", "t"}
    /\ Registry["t"].is_committed
    /\ Registry["t"].replacements = <<"t", "r">>
    /\ Open = NoReplacement

(***************************************************************************)
(* C29: in every reachable state of the compiler the queue holds no rule   *)
(* more than once, every rule of the queue is committed and is the rule    *)
(* the registry has under its id, and a queue that is not empty holds the  *)
(* ROOT rule: nothing is queued before a ROOT rule has been committed.     *)
(***************************************************************************)
C29_QueueInvariant ==
    /\ \A i, j \in 1..Len(Queue) : i # j => Queue[i] # Queue[j]
    /\ \A id \in Range(Queue) :
           /\ id \in DOMAIN Registry
           /\ Registry[id].id_ = id
           /\ Registry[id].is_committed
           /\ Registry[id].queue_position_type \in {"ROOT", "BEFORE", "AFTER"}
    /\ Queue # <<>> =>
           /\ master.root_replacement_id \in Range(Queue)
           /\ Registry[master.root_replacement_id].queue_position_type = "ROOT"
    /\ Queue = <<>> => master.root_replacement_id = None

\* a queue of two rules, the second put before the ROOT rule, when the ROOT
\* declaration of a third rule has ended the run
C29_Witness ==
    /\ pc = "exited"
    /\ error = "root replacement already declared"
    /\ Len(Queue) = 2
    /\ master.root_replacement_id = Queue[2]
    /\ DOMAIN Registry = Range(Queue)

(***************************************************************************)
(* C30: build_attributes_sequence is total: for every string of attribute  *)
(* specifications it returns an attribute sequence and raises nothing, a   *)
(* boolean class beside .name or class=value in either order and the       *)
(* deletion of a name that is not present included.                        *)
(***************************************************************************)
C30_Total ==
    call.op = "build_attributes_sequence" => call.raised = "none"

(***************************************************************************)
(* The placeholder service driven by a caller                              *)
(***************************************************************************)
\* Code points the caller's strings are drawn from: one of each UTF-8
\* length, two of the run band (its first and last), the marker.
CodePoints == {36, 163, 8364, 66376, 57380, RUN_CODE_POINT_MAX, MARKER}

PlaceholderInit ==
    /\ ph_input \in SeqsUpTo(CodePoints, MaxLen)
    /\ ph_string = ph_input
    /\ ph_calls = <<>>
    /\ ph_raised = "none"
    /\ rule = NewRule
    /\ call = NoCall
    /\ reference_from_label = NoReferences
    /\ conversions = NoConversions
    /\ history = <<>>
    /\ master = IdleMaster
    /\ frames = <<>>
    /\ locals = NewLocals
    /\ pc = "idle"
    /\ error = None
    /\ output = NoOutput

PlaceholderCall(name, result) ==
    /\ ph_raised = "none"
    /\ Len(ph_calls) < MaxCalls
    /\ ph_calls' = Append(ph_calls, name)
    /\ ph_raised' = result.raised
    /\ ph_string' = IF result.raised = "none" THEN result.string ELSE ph_string
    /\ UNCHANGED <<ph_input, rule_vars, master_vars, reference_vars, conversions>>

CallProtect == PlaceholderCall("protect", protect(ph_string))

CallUnprotect == PlaceholderCall("unprotect", unprotect(ph_string))

CallReplaceMarkerOccurrences ==
    PlaceholderCall("replace_marker_occurrences", replace_marker_occurrences(ph_string))

PlaceholderNext ==
    \/ CallProtect
    \/ CallUnprotect
    \/ CallReplaceMarkerOccurrences

PlaceholderSpec == PlaceholderInit /\ [][PlaceholderNext]_vars

(***************************************************************************)
(* C1: for every string s without the marker U+F8FF,                       *)
(* unprotect(protect(s)) = s, where protect(s) is the marker, one run code *)
(* point (byte + U+E000) per UTF-8 byte of s, and the marker.              *)
(***************************************************************************)
HasMarker(string) == \E i \in 1..Len(string) : string[i] = MARKER

RoundTrip ==
    (/\ ~HasMarker(ph_input)
     /\ ph_calls = <<"protect", "unprotect">>)
        => (ph_raised = "none" /\ ph_string = ph_input)

ProtectShape ==
    (~HasMarker(ph_input) /\ ph_calls = <<"protect">>)
        => /\ ph_raised = "none"
           /\ Len(ph_string) = Len(Encode(ph_input)) + 2
           /\ ph_string[1] = MARKER /\ ph_string[Len(ph_string)] = MARKER
           /\ \A i \in 1..Len(Encode(ph_input)) :
                  ph_string[i + 1] = Encode(ph_input)[i] + RUN_CODE_POINT_MIN

C1_RoundTrip == RoundTrip /\ ProtectShape

\* a string with a 2-byte, a 4-byte and a run-band code point, round-tripped
C1_Witness ==
    /\ ph_input = <<163, 66376, 57380>>
    /\ ph_calls = <<"protect", "unprotect">>
    /\ ph_string = ph_input

(***************************************************************************)
(* C19: unprotect replaces every placeholder and raises nothing            *)
(***************************************************************************)
\* the byte run a run of run characters stands for, none when a run
\* character stands for no byte
ByteRun(run_characters) ==
    IF \E i \in 1..Len(run_characters) : run_characters[i] - RUN_CODE_POINT_MIN > 255
    THEN [ok |-> FALSE, string |-> <<>>]
    ELSE Decode([i \in 1..Len(run_characters) |-> run_characters[i] - RUN_CODE_POINT_MIN])

\* the string with every span marker, run, marker, leftmost first, replaced
\* by the decoding of its byte run, or by U+FFFD when there is none
RECURSIVE SpansReplacedFrom(_, _)
SpansReplacedFrom(string, i) ==
    IF i > Len(string) THEN <<>>
    ELSE IF /\ string[i] = MARKER
            /\ RunEnd(string, i + 1) <= Len(string)
            /\ string[RunEnd(string, i + 1)] = MARKER
        THEN (IF ByteRun(SubSeq(string, i + 1, RunEnd(string, i + 1) - 1)).ok
              THEN ByteRun(SubSeq(string, i + 1, RunEnd(string, i + 1) - 1)).string
              ELSE <<REPLACEMENT_CODE_POINT>>)
             \o SpansReplacedFrom(string, RunEnd(string, i + 1) + 1)
    ELSE <<string[i]>> \o SpansReplacedFrom(string, i + 1)

\* C19: unprotect never aborts: for every input string, every span the
\* placeholder pattern matches as marker, run, marker, for every run code
\* point the pattern accepts, is replaced by the UTF-8 decoding of its
\* byte run or, when the run is not a valid UTF-8 byte sequence, by
\* U+FFFD; no exception leaves unprotect.
C19_UnprotectNeverAborts ==
    ph_calls = <<"unprotect">> =>
        /\ ph_raised = "none"
        /\ ph_string = SpansReplacedFrom(ph_input, 1)

====
